---- MODULE Spec2Model ----
(***************************************************************************)
(* A model of the pypx compilation pipeline of xtracto: Tokenizer, Lexer,  *)
(* PypxParser, HTMLGenerator, and of the ImportResolver and LayoutManager  *)
(* that work on the generated text.                                        *)
(*                                                                         *)
(* A text is a sequence of characters; a character is a one-character      *)
(* string.  Positions (pos) are 0-based as in the Python source, lines and *)
(* columns are 1-based.                                                    *)
(***************************************************************************)
EXTENDS Integers, Sequences, FiniteSets, TLC

VARIABLES
    raw_source,     \* the text handed to Tokenizer(source)
    source,         \* Tokenizer.source (tabs normalized)
    pc,             \* where the run stands
    tk_pos,         \* Tokenizer.pos
    tk_line,        \* Tokenizer.line
    tk_column,      \* Tokenizer.column
    tk_tokens,      \* Tokenizer.tokens
    lx_pos,         \* Lexer.pos
    lx_output,      \* Lexer.output
    indent_stack,   \* Lexer.indent_stack
    lx_error,       \* the LexerError raised by Lexer.process, or NoError
    document,       \* the Document returned by PypxParser.parse
    warnings,       \* the token types PypxParser skipped with a warning
    html,           \* the text returned by HTMLGenerator.generate
    files,          \* the component root: path -> file
    current_file,   \* the current_file argument of ImportResolver.resolve
    given,          \* the content argument resolve was called with
    content,        \* ImportResolver: the text being resolved
    old_content,    \* ImportResolver._resolve_imports: old_content
    depth,          \* ImportResolver._depth
    passes,         \* the substitution passes performed so far
    logs,           \* the diagnostics logged so far
    import_stack,   \* ImportResolver._import_stack
    raised,         \* whether an exception left the operation
    result,         \* the value returned by resolve / apply_layout
    layout_file,    \* pages/_layout.pypx: absent, or how it compiles
    layout_cache,   \* LayoutManager._layout_cache
    page,           \* the page content handed to apply_layout
    production,     \* Config.production, what TemplateCache.enabled returns
    template_cache, \* TemplateCache._template_cache: path -> (hash, template)
    calls,          \* the set_template and clear calls made so far, in order
    got,            \* what the last get_template returned, with its arguments
    disk,           \* the template files: path -> content
    writer,         \* each writer's position and what it has compiled
    template_string,\* the template handed to JinjaRenderer.render
    context,        \* the context handed to JinjaRenderer.render
    jinja_raises,   \* where the Jinja2 environment raises: nowhere, in
                    \* from_string, or in Template.render
    fm_path,        \* the path handed to FileManager.get_file_if_valid
    fm_opened       \* the files opened so far

vars == <<raw_source, source, pc, tk_pos, tk_line, tk_column, tk_tokens,
          lx_pos, lx_output, indent_stack, lx_error, document, warnings, html,
          files, current_file, given, content, old_content, depth, passes,
          import_stack, logs, raised, result, layout_file, layout_cache, page,
          production, template_cache, calls, got, disk, writer,
          template_string, context, jinja_raises, fm_path, fm_opened>>

compileVars == <<raw_source, source, tk_pos, tk_line, tk_column, tk_tokens,
                 lx_pos, lx_output, indent_stack, lx_error, document,
                 warnings, html>>
resolveVars == <<files, current_file, given, content, old_content, depth, passes,
                 import_stack>>
layoutVars == <<layout_file, layout_cache, page>>
cacheVars == <<production, template_cache, calls, got, disk, writer>>
renderVars == <<template_string, context, jinja_raises>>
fileVars == <<fm_path, fm_opened>>
restVars == <<cacheVars, renderVars, fileVars>>

\* the cache, the renderer and the file manager before anything used them
IdleCache ==
    /\ production = FALSE /\ template_cache = <<>> /\ calls = <<>>
    /\ got = <<>> /\ disk = <<>> /\ writer = <<>>
IdleRender == template_string = <<>> /\ context = <<>> /\ jinja_raises = "none"
IdleFile == fm_path = <<>> /\ fm_opened = {}
IdleRest == IdleCache /\ IdleRender /\ IdleFile

-----------------------------------------------------------------------------
(* Characters and texts                                                    *)

LowerLetters == <<"a","b","c","d","e","f","g","h","i","j","k","l","m",
                  "n","o","p","q","r","s","t","u","v","w","x","y","z">>
UpperLetters == <<"A","B","C","D","E","F","G","H","I","J","K","L","M",
                  "N","O","P","Q","R","S","T","U","V","W","X","Y","Z">>
Digits == {"0","1","2","3","4","5","6","7","8","9"}

Range(s) == {s[i] : i \in 1..Len(s)}

\* str.isalpha, str.isalnum on one character
IsAlpha(c) == c \in Range(LowerLetters) \cup Range(UpperLetters)
IsAlnum(c) == IsAlpha(c) \/ c \in Digits

\* the characters str.strip, str.lstrip and str.split treat as whitespace
Whitespace == {" ", "\t", "\n", "\r", "\f"}

\* str.lower on one character and on a text
LowerChar(c) ==
    IF \E i \in 1..Len(UpperLetters) : UpperLetters[i] = c
    THEN LowerLetters[CHOOSE i \in 1..Len(UpperLetters) : UpperLetters[i] = c]
    ELSE c
Lower(s) == [i \in 1..Len(s) |-> LowerChar(s[i])]

Min(a, b) == IF a < b THEN a ELSE b

\* s[from:] and s[from:to] with 0-based Python slice bounds
Slice(s, from, to) == SubSeq(s, from + 1, Min(to, Len(s)))
SliceFrom(s, from) == SubSeq(s, from + 1, Len(s))

\* str.lstrip, str.rstrip, str.strip
LStrip(s) ==
    IF \A i \in 1..Len(s) : s[i] \in Whitespace THEN <<>>
    ELSE SubSeq(s, CHOOSE i \in 1..Len(s) :
                       /\ s[i] \notin Whitespace
                       /\ \A j \in 1..(i-1) : s[j] \in Whitespace, Len(s))
RStrip(s) ==
    IF \A i \in 1..Len(s) : s[i] \in Whitespace THEN <<>>
    ELSE SubSeq(s, 1, CHOOSE i \in 1..Len(s) :
                       /\ s[i] \notin Whitespace
                       /\ \A j \in (i+1)..Len(s) : s[j] \in Whitespace)
Strip(s) == RStrip(LStrip(s))

\* "".join(parts)
RECURSIVE Join(_)
Join(parts) == IF parts = <<>> THEN <<>> ELSE Head(parts) \o Join(Tail(parts))

\* whether text t occurs in s at 0-based position p
OccursAt(s, t, p) ==
    p >= 0 /\ p + Len(t) <= Len(s) /\ SubSeq(s, p + 1, p + Len(t)) = t
\* t in s
Contains(s, t) == \E p \in 0..Len(s) : OccursAt(s, t, p)

\* str.replace(old, new): every non-overlapping occurrence, left to right
RECURSIVE ReplaceFrom(_, _, _, _)
ReplaceFrom(s, old, new, p) ==
    IF p >= Len(s) THEN <<>>
    ELSE IF OccursAt(s, old, p)
         THEN new \o ReplaceFrom(s, old, new, p + Len(old))
         ELSE <<s[p + 1]>> \o ReplaceFrom(s, old, new, p + 1)
Replace(s, old, new) == ReplaceFrom(s, old, new, 0)

\* str.expandtabs(tabsize): a tab advances to the next multiple of tabsize
\* of the column counted from the last line break
RECURSIVE ExpandTabsFrom(_, _, _, _)
ExpandTabsFrom(s, tabsize, i, col) ==
    IF i > Len(s) THEN <<>>
    ELSE IF s[i] = "\t"
         THEN LET n == tabsize - (col % tabsize)
              IN  [k \in 1..n |-> " "] \o ExpandTabsFrom(s, tabsize, i + 1, col + n)
         ELSE IF s[i] \in {"\n", "\r"}
              THEN <<s[i]>> \o ExpandTabsFrom(s, tabsize, i + 1, 0)
              ELSE <<s[i]>> \o ExpandTabsFrom(s, tabsize, i + 1, col + 1)
ExpandTabs(s, tabsize) == ExpandTabsFrom(s, tabsize, 1, 0)

-----------------------------------------------------------------------------
(* Element tables                                                          *)

HTML_ELEMENTS ==
    {
      <<"!","D","O","C","T","Y","P","E"," ","h","t","m","l">>, <<"a">>, <<"a","b","b","r">>, <<"a","c","r","o","n","y","m">>,
      <<"a","d","d","r","e","s","s">>, <<"a","p","p","l","e","t">>, <<"a","r","t","i","c","l","e">>, <<"a","s","i","d","e">>,
      <<"a","u","d","i","o">>, <<"b">>, <<"b","a","s","e">>, <<"b","a","s","e","f","o","n","t">>,
      <<"b","d","i">>, <<"b","d","o">>, <<"b","g","s","o","u","n","d">>, <<"b","i","g">>,
      <<"b","l","o","c","k","q","u","o","t","e">>, <<"b","o","d","y">>, <<"b","r">>, <<"b","u","t","t","o","n">>,
      <<"c","a","n","v","a","s">>, <<"c","a","p","t","i","o","n">>, <<"c","e","n","t","e","r">>, <<"c","i","t","e">>,
      <<"c","o","d","e">>, <<"c","o","l">>, <<"c","o","l","g","r","o","u","p">>, <<"d","a","t","a">>,
      <<"d","a","t","a","l","i","s","t">>, <<"d","d">>, <<"d","e","l">>, <<"d","e","t","a","i","l","s">>,
      <<"d","f","n">>, <<"d","i","a","l","o","g">>, <<"d","i","r">>, <<"d","i","v">>,
      <<"d","l">>, <<"d","t">>, <<"e","m">>, <<"e","m","b","e","d">>,
      <<"f","i","e","l","d","s","e","t">>, <<"f","i","g","c","a","p","t","i","o","n">>, <<"f","i","g","u","r","e">>, <<"f","o","n","t">>,
      <<"f","o","o","t","e","r">>, <<"f","o","r","m">>, <<"f","r","a","m","e">>, <<"f","r","a","m","e","s","e","t">>,
      <<"h","1">>, <<"h","2">>, <<"h","3">>, <<"h","4">>,
      <<"h","5">>, <<"h","6">>, <<"h","e","a","d">>, <<"h","e","a","d","e","r">>,
      <<"h","g","r","o","u","p">>, <<"h","r">>, <<"h","t","m","l">>, <<"i">>,
      <<"i","f","r","a","m","e">>, <<"i","m","g">>, <<"i","n","p","u","t">>, <<"i","n","s">>,
      <<"i","s","i","n","d","e","x">>, <<"k","b","d">>, <<"k","e","y","g","e","n">>, <<"l","a","b","e","l">>,
      <<"l","e","g","e","n","d">>, <<"l","i">>, <<"l","i","n","k">>, <<"m","a","i","n">>,
      <<"m","a","p">>, <<"m","a","r","k">>, <<"m","a","r","q","u","e","e">>, <<"m","e","n","u">>,
      <<"m","e","n","u","i","t","e","m">>, <<"m","e","t","a">>, <<"m","e","t","e","r">>, <<"n","a","v">>,
      <<"n","o","b","r">>, <<"n","o","e","m","b","e","d">>, <<"n","o","f","r","a","m","e","s">>, <<"n","o","s","c","r","i","p","t">>,
      <<"o","b","j","e","c","t">>, <<"o","l">>, <<"o","p","t","g","r","o","u","p">>, <<"o","p","t","i","o","n">>,
      <<"o","u","t","p","u","t">>, <<"p">>, <<"p","a","r","a","m">>, <<"p","i","c","t","u","r","e">>,
      <<"p","r","e">>, <<"p","r","o","g","r","e","s","s">>, <<"q">>, <<"r","p">>,
      <<"r","t">>, <<"r","u","b","y">>, <<"s">>, <<"s","a","m","p">>,
      <<"s","c","r","i","p","t">>, <<"s","e","c","t","i","o","n">>, <<"s","e","l","e","c","t">>, <<"s","m","a","l","l">>,
      <<"s","o","u","r","c","e">>, <<"s","p","a","c","e","r">>, <<"s","p","a","n">>, <<"s","t","r","i","k","e">>,
      <<"s","t","r","o","n","g">>, <<"s","t","y","l","e">>, <<"s","u","b">>, <<"s","u","m","m","a","r","y">>,
      <<"s","u","p">>, <<"s","v","g">>, <<"t","a","b","l","e">>, <<"t","b","o","d","y">>,
      <<"t","d">>, <<"t","e","m","p","l","a","t","e">>, <<"t","e","x","t","a","r","e","a">>, <<"t","f","o","o","t">>,
      <<"t","h">>, <<"t","h","e","a","d">>, <<"t","i","m","e">>, <<"t","i","t","l","e">>,
      <<"t","r">>, <<"t","r","a","c","k">>, <<"t","t">>, <<"u">>,
      <<"u","l">>, <<"v","a","r">>, <<"v","i","d","e","o">>, <<"w","b","r">>,
      <<"x","m","p">>
    }

VOID_ELEMENTS ==
    {
      <<"a","r","e","a">>, <<"b","a","s","e">>, <<"b","r">>, <<"c","o","l">>,
      <<"e","m","b","e","d">>, <<"h","r">>, <<"i","m","g">>, <<"i","n","p","u","t">>,
      <<"l","i","n","k">>, <<"m","e","t","a">>, <<"p","a","r","a","m">>, <<"s","o","u","r","c","e">>,
      <<"t","r","a","c","k">>, <<"w","b","r">>
    }

ELEMENTS_WITH_CLOSING_TAG ==
    {
      <<"!","D","O","C","T","Y","P","E"," ","h","t","m","l">>, <<"a">>, <<"a","b","b","r">>, <<"a","c","r","o","n","y","m">>,
      <<"a","d","d","r","e","s","s">>, <<"a","p","p","l","e","t">>, <<"a","r","t","i","c","l","e">>, <<"a","s","i","d","e">>,
      <<"a","u","d","i","o">>, <<"b">>, <<"b","a","s","e","f","o","n","t">>, <<"b","d","i">>,
      <<"b","d","o">>, <<"b","g","s","o","u","n","d">>, <<"b","i","g">>, <<"b","l","o","c","k","q","u","o","t","e">>,
      <<"b","o","d","y">>, <<"b","o","l","d">>, <<"b","u","t","t","o","n">>, <<"c","a","n","v","a","s">>,
      <<"c","a","p","t","i","o","n">>, <<"c","e","n","t","e","r">>, <<"c","i","t","e">>, <<"c","o","d","e">>,
      <<"c","o","l","g","r","o","u","p">>, <<"c","o","l","u","m","n">>, <<"c","o","m","m","e","n","t">>, <<"d","a","t","a">>,
      <<"d","a","t","a","l","i","s","t">>, <<"d","d">>, <<"d","e","f","i","n","e">>, <<"d","e","l","e","t","e">>,
      <<"d","e","t","a","i","l","s">>, <<"d","i","a","l","o","g">>, <<"d","i","r">>, <<"d","i","v">>,
      <<"d","l">>, <<"d","t">>, <<"e","m">>, <<"f","i","e","l","d","s","e","t">>,
      <<"f","i","g","c","a","p","t","i","o","n">>, <<"f","i","g","u","r","e">>, <<"f","o","n","t">>, <<"f","o","o","t","e","r">>,
      <<"f","o","r","m">>, <<"f","r","a","m","e">>, <<"f","r","a","m","e","s","e","t">>, <<"h","1">>,
      <<"h","2">>, <<"h","3">>, <<"h","4">>, <<"h","5">>,
      <<"h","6">>, <<"h","e","a","d">>, <<"h","e","a","d","e","r">>, <<"h","e","a","d","i","n","g">>,
      <<"h","g","r","o","u","p">>, <<"h","t","m","l">>, <<"i">>, <<"i","f","r","a","m","e">>,
      <<"i","n","s">>, <<"i","s","i","n","d","e","x">>, <<"i","t","a","l","i","c">>, <<"k","b","d">>,
      <<"k","e","y","g","e","n">>, <<"l","a","b","e","l">>, <<"l","e","g","e","n","d">>, <<"l","i">>,
      <<"l","i","s","t">>, <<"m","a","i","n">>, <<"m","a","r","k">>, <<"m","a","r","q","u","e","e">>,
      <<"m","e","n","u","i","t","e","m">>, <<"m","e","t","e","r">>, <<"n","a","v">>, <<"n","o","b","r","e","a","k">>,
      <<"n","o","e","m","b","e","d">>, <<"n","o","s","c","r","i","p","t">>, <<"o","b","j","e","c","t">>, <<"o","l">>,
      <<"o","p","t","g","r","o","u","p">>, <<"o","p","t","i","o","n">>, <<"o","u","t","p","u","t">>, <<"p">>,
      <<"p","a","r","a","g","r","a","p","h","s">>, <<"p","h","r","a","s","e">>, <<"p","r","e">>, <<"p","r","o","g","r","e","s","s">>,
      <<"q">>, <<"r","p">>, <<"r","t">>, <<"r","u","b","y">>,
      <<"s">>, <<"s","a","m","p">>, <<"s","c","r","i","p","t">>, <<"s","e","c","t","i","o","n">>,
      <<"s","e","l","e","c","t">>, <<"s","m","a","l","l">>, <<"s","p","a","c","e","r">>, <<"s","p","a","n">>,
      <<"s","t","r","i","k","e">>, <<"s","t","r","o","n","g">>, <<"s","t","y","l","e">>, <<"s","u","b">>,
      <<"s","u","m","m","a","r","y">>, <<"s","u","p">>, <<"s","v","g">>, <<"t","a","b","l","e">>,
      <<"t","b","o","d","y">>, <<"t","d">>, <<"t","e","m","p","l","a","t","e">>, <<"t","e","x","t","a","r","e","a">>,
      <<"t","f","o","o","t">>, <<"t","h">>, <<"t","h","e","a","d">>, <<"t","i","m","e">>,
      <<"t","i","t","l","e">>, <<"t","r">>, <<"t","t">>, <<"u">>,
      <<"u","l">>, <<"u","n","d","e","r","l","i","n","e">>, <<"v","a","r">>, <<"v","i","d","e","o">>,
      <<"x","m","p">>
    }

-----------------------------------------------------------------------------
(* Tokens (parsing/tokens.py)                                              *)

Token(type, value, line, column) ==
    [type |-> type, value |-> value, line |-> line, column |-> column]

-----------------------------------------------------------------------------
(* Tokenizer (parsing/tokenizer.py)                                        *)

TabSize == 4

\* Tokenizer.__init__: the source with tabs normalized
NormalizeTabs(src) == Replace(ExpandTabs(src, TabSize), <<"\t">>, <<" ", " ", " ", " ">>)

\* Tokenizer.DELIMITERS: delimiter -> the first token type of its entry
DELIMITERS ==
    {<<":", ":">>, <<"{", "{">>, <<"}", "}">>, <<";", ";">>, <<"[", "[">>,
     <<"]", "]">>, <<"|", "|">>, <<"{", "%">>, <<"%", "}">>, <<"{", "#">>,
     <<"#", "}">>}
DelimiterType(d) ==
    CASE d = <<":", ":">> -> "COMMENT_START"
      [] d = <<"{", "{">> -> "VAR_START"
      [] d = <<"}", "}">> -> "VAR_END"
      [] d = <<";", ";">> -> "ATTR_START"
      [] d = <<"[", "[">> -> "IMPORT_START"
      [] d = <<"]", "]">> -> "IMPORT_END"
      [] d = <<"|", "|">> -> "IMPORT_PARAMS"
      [] d = <<"{", "%">> -> "JINJA_BLOCK_START"
      [] d = <<"%", "}">> -> "JINJA_BLOCK_END"
      [] d = <<"{", "#">> -> "JINJA_COMMENT_START"
      [] d = <<"#", "}">> -> "JINJA_COMMENT_END"

NUL == "NUL"
\* Tokenizer._peek, Tokenizer._peek_string
Peek(src, pos) == IF pos >= Len(src) THEN NUL ELSE src[pos + 1]
PeekString(src, pos, length) == Slice(src, pos, pos + length)

\* Tokenizer._scan_text_until_delimiter: the position where the scan stops
StopsText(src, p) ==
    \/ p >= Len(src)
    \/ PeekString(src, p, 2) \in DELIMITERS
    \/ Peek(src, p) = "\n"
ScanTextUntilDelimiter(src, pos) ==
    CHOOSE q \in pos..Len(src) :
        StopsText(src, q) /\ \A r \in pos..(q - 1) : ~StopsText(src, r)

\* Tokenizer._is_valid_element_name
IsValidElementName(name) ==
    /\ name # <<>>
    /\ IsAlpha(name[1]) \/ name[1] = "!"
    /\ \A i \in 2..Len(name) : IsAlnum(name[i]) \/ name[i] \in {"-", "_"}

\* value.split()[0]: the first whitespace-delimited word
FirstWord(value) ==
    LET s == LStrip(value)
    IN  IF \E i \in 1..Len(s) : s[i] \in Whitespace
        THEN SubSeq(s, 1, (CHOOSE i \in 1..Len(s) :
                              /\ s[i] \in Whitespace
                              /\ \A j \in 1..(i-1) : s[j] \notin Whitespace) - 1)
        ELSE s

\* Tokenizer._scan_identifier_or_text: the position where the scan stops
IdentChar(c) == IsAlnum(c) \/ c \in {"_", "-", "!"}
ScanIdentifierEnd(src, pos) ==
    LET stops(p) == StopsText(src, p) \/ ~IdentChar(Peek(src, p))
        q == CHOOSE q \in pos..Len(src) :
                 stops(q) /\ \A r \in pos..(q - 1) : ~stops(r)
    IN  IF StopsText(src, q) THEN q ELSE ScanTextUntilDelimiter(src, q)

\* Tokenizer._scan_identifier_or_text: the tokens emitted for the scanned value
IdentifierOrTextTokens(value, start_line, start_column) ==
    IF value = <<>> THEN <<>>
    ELSE
    LET cleaned == SelectSeq(value, LAMBDA c : c \notin {"-", "_", "!", " "})
        isalnum == cleaned # <<>> /\ \A i \in 1..Len(cleaned) : IsAlnum(cleaned[i])
        first_word == IF " " \in Range(value) THEN FirstWord(value) ELSE value
        rest == LStrip(SliceFrom(value, Len(first_word)))
    IN  IF isalnum /\ IsValidElementName(first_word)
        THEN <<Token("IDENTIFIER", first_word, start_line, start_column)>> \o
             (IF rest # <<>>
              THEN <<Token("TEXT", rest, start_line,
                           start_column + Len(first_word) + 1)>>
              ELSE <<>>)
        ELSE <<Token("TEXT", value, start_line, start_column)>>

\* Tokenizer._scan_indentation: the position after the leading run of spaces
ScanIndentationEnd(src, pos) ==
    CHOOSE q \in pos..Len(src) :
        Peek(src, q) # " " /\ \A r \in pos..(q - 1) : Peek(src, r) = " "

\* Tokenizer._scan_token: the tokenizer after one call, as
\* [pos, line, column, emitted]
ScanToken(src, pos, line, column) ==
    IF Peek(src, pos) = "\n"
    THEN LET q == ScanIndentationEnd(src, pos + 1)
             indent == Slice(src, pos + 1, q)
         IN  [pos |-> q, line |-> line + 1, column |-> 1 + Len(indent),
              emitted |-> <<Token("NEWLINE", <<"\n">>, line, column)>> \o
                          (IF indent # <<>>
                           THEN <<Token("INDENT", indent, line + 1, 1)>>
                           ELSE <<>>)]
    ELSE IF PeekString(src, pos, 2) \in DELIMITERS
    THEN [pos |-> pos + 2, line |-> line, column |-> column + 2,
          emitted |-> <<Token(DelimiterType(PeekString(src, pos, 2)),
                              PeekString(src, pos, 2), line, column)>>]
    ELSE LET char == Peek(src, pos)
         IN  IF IsAlpha(char) \/ char = "_" \/ char = "!"
             THEN LET q == ScanIdentifierEnd(src, pos)
                  IN  [pos |-> q, line |-> line, column |-> column + (q - pos),
                       emitted |-> IdentifierOrTextTokens(Slice(src, pos, q),
                                                          line, column)]
             ELSE IF char = " "
             THEN [pos |-> pos + 1, line |-> line, column |-> column + 1,
                   emitted |-> <<>>]
             ELSE LET q == ScanTextUntilDelimiter(src, pos)
                  IN  [pos |-> q, line |-> line, column |-> column + (q - pos),
                       emitted |-> IF q > pos
                                   THEN <<Token("TEXT", Slice(src, pos, q),
                                                line, column)>>
                                   ELSE <<>>]

-----------------------------------------------------------------------------
(* Lexer (parsing/lexer.py)                                                *)

NoError == [kind |-> "none"]
\* LexerError(message, location=SourceLocation(line, column))
LexerError(message, start_token) ==
    [kind |-> "LexerError", message |-> message,
     line |-> start_token.line, column |-> start_token.column]

\* Lexer._at_end, Lexer._current
LexAtEnd(tokens, pos) == pos >= Len(tokens)
LexCurrent(tokens, pos) ==
    IF LexAtEnd(tokens, pos) THEN tokens[Len(tokens)] ELSE tokens[pos + 1]

\* Lexer._emit_synthetic: the synthetic token takes the position of the
\* current token, or of the last token at the end of the stream
Synthetic(tokens, pos, type, value) ==
    LET current == LexCurrent(tokens, pos)
    IN  Token(type, value, current.line, current.column)

\* the 0-based index of the first token at or after pos whose type is in
\* types, or Len(tokens) when there is none
FirstOf(tokens, pos, types) ==
    CHOOSE q \in pos..Len(tokens) :
        /\ q = Len(tokens) \/ tokens[q + 1].type \in types
        /\ \A r \in pos..(q - 1) : tokens[r + 1].type \notin types

\* the values of tokens[from:to]
Values(tokens, from, to) == [i \in 1..(to - from) |-> tokens[from + i].value]

\* the outcome of one handler of Lexer._process_token
LexOutcome(pos, emitted, stack, error) ==
    [pos |-> pos, emitted |-> emitted, stack |-> stack, error |-> error]

\* Lexer._skip_comment: consume up to and including the next COMMENT_START
SkipComment(tokens, pos, stack) ==
    LET q == FirstOf(tokens, pos + 1, {"COMMENT_START"})
    IN  LexOutcome(Min(q + 1, Len(tokens)), <<>>, stack, NoError)

\* the loop shared by the grouping handlers: scan for the end delimiter,
\* raise at EOF
GroupEnd(tokens, pos, end_type) == FirstOf(tokens, pos + 1, {end_type, "EOF"})
Unclosed(tokens, q) == q < Len(tokens) /\ tokens[q + 1].type = "EOF"

\* Lexer._group_variable
GroupVariable(tokens, pos, stack) ==
    LET start_token == tokens[pos + 1]
        q == GroupEnd(tokens, pos, "VAR_END")
        content_parts == Values(tokens, pos + 1, q)
    IN  IF Unclosed(tokens, q)
        THEN LexOutcome(q, <<>>, stack,
                        LexerError("Unclosed variable block", start_token))
        ELSE LexOutcome(Min(q + 1, Len(tokens)),
                        <<Token("VAR_CONTENT", Strip(Join(content_parts)),
                                start_token.line, start_token.column)>>,
                        stack, NoError)

\* Lexer._group_attribute
GroupAttribute(tokens, pos, stack) ==
    LET start_token == tokens[pos + 1]
        q == GroupEnd(tokens, pos, "ATTR_START")
        content_parts == Values(tokens, pos + 1, q)
    IN  IF Unclosed(tokens, q)
        THEN LexOutcome(q, <<>>, stack,
                        LexerError("Unclosed attribute block", start_token))
        ELSE LexOutcome(Min(q + 1, Len(tokens)),
                        <<Token("ATTR_CONTENT", Strip(Join(content_parts)),
                                start_token.line, start_token.column)>>,
                        stack, NoError)

\* Lexer._group_import
GroupImport(tokens, pos, stack) ==
    LET start_token == tokens[pos + 1]
        q == GroupEnd(tokens, pos, "IMPORT_END")
        inner == SubSeq(tokens, pos + 2, q)
        has_params == \E i \in 1..Len(inner) : inner[i].type = "IMPORT_PARAMS"
        first == IF has_params
                 THEN CHOOSE i \in 1..Len(inner) :
                          /\ inner[i].type = "IMPORT_PARAMS"
                          /\ \A j \in 1..(i-1) : inner[j].type # "IMPORT_PARAMS"
                 ELSE Len(inner) + 1
        path_parts == Values(inner, 0, first - 1)
        param_tokens == SelectSeq(SubSeq(inner, first, Len(inner)),
                                  LAMBDA t : t.type # "IMPORT_PARAMS")
        param_parts == Values(param_tokens, 0, Len(param_tokens))
        path == Strip(Join(path_parts))
        params == IF has_params THEN Strip(Join(param_parts)) ELSE <<>>
        text == IF has_params THEN path \o <<"|", "|">> \o params ELSE path
    IN  IF Unclosed(tokens, q)
        THEN LexOutcome(q, <<>>, stack,
                        LexerError("Unclosed import block", start_token))
        ELSE LexOutcome(Min(q + 1, Len(tokens)),
                        <<Token("IMPORT_CONTENT", text,
                                start_token.line, start_token.column)>>,
                        stack, NoError)

\* Lexer._group_jinja_block
GroupJinjaBlock(tokens, pos, stack) ==
    LET start_token == tokens[pos + 1]
        q == GroupEnd(tokens, pos, "JINJA_BLOCK_END")
        closed == q < Len(tokens) /\ tokens[q + 1].type = "JINJA_BLOCK_END"
        content_parts == <<<<"{", "%">>>> \o Values(tokens, pos + 1, q) \o
                         (IF closed THEN <<<<"%", "}">>>> ELSE <<>>)
    IN  IF Unclosed(tokens, q)
        THEN LexOutcome(q, <<>>, stack,
                        LexerError("Unclosed Jinja2 block", start_token))
        ELSE LexOutcome(Min(q + 1, Len(tokens)),
                        <<Token("JINJA_BLOCK", Join(content_parts),
                                start_token.line, start_token.column)>>,
                        stack, NoError)

\* Lexer._skip_jinja_comment
SkipJinjaComment(tokens, pos, stack) ==
    LET start_token == tokens[pos + 1]
        q == GroupEnd(tokens, pos, "JINJA_COMMENT_END")
    IN  IF Unclosed(tokens, q)
        THEN LexOutcome(q, <<>>, stack,
                        LexerError("Unclosed Jinja2 comment", start_token))
        ELSE LexOutcome(Min(q + 1, Len(tokens)), <<>>, stack, NoError)

\* the indent stack after popping every entry above current_indent
\* (the base entry is never popped)
RECURSIVE PopAbove(_, _)
PopAbove(stack, current_indent) ==
    IF Len(stack) > 1 /\ stack[Len(stack)] > current_indent
    THEN PopAbove(SubSeq(stack, 1, Len(stack) - 1), current_indent)
    ELSE stack

\* an indent handling that pushes the width of every INDENT
HandleIndentPushingEvery(tokens, pos, stack) ==
    LET token == tokens[pos + 1]
        current_indent == Len(token.value)
    IN  LexOutcome(pos + 1, <<token>>, Append(stack, current_indent), NoError)

\* an indent handling that drops the INDENT of a shallower line
HandleIndentDroppingShallower(tokens, pos, stack) ==
    LET token == tokens[pos + 1]
        current_indent == Len(token.value)
        prev_indent == stack[Len(stack)]
        popped == PopAbove(stack, current_indent)
        dedents == [i \in 1..(Len(stack) - Len(popped)) |->
                        Synthetic(tokens, pos + 1, "DEDENT", <<>>)]
    IN  IF current_indent > prev_indent
        THEN LexOutcome(pos + 1, <<token>>, Append(stack, current_indent), NoError)
        ELSE IF current_indent < prev_indent
        THEN LexOutcome(pos + 1, dedents, popped, NoError)
        ELSE LexOutcome(pos + 1, <<token>>, stack, NoError)

\* Lexer._handle_indent
HandleIndent(tokens, pos, stack) ==
    LET token == tokens[pos + 1]
        current_indent == Len(token.value)
        prev_indent == stack[Len(stack)]
        popped == PopAbove(stack, current_indent)
        dedents == [i \in 1..(Len(stack) - Len(popped)) |->
                        Synthetic(tokens, pos + 1, "DEDENT", <<>>)]
    IN  IF current_indent > prev_indent
        THEN LexOutcome(pos + 1, <<token>>, Append(stack, current_indent), NoError)
        ELSE IF current_indent < prev_indent
        THEN LexOutcome(pos + 1,
                        dedents \o (IF current_indent > 0 THEN <<token>> ELSE <<>>),
                        popped, NoError)
        ELSE LexOutcome(pos + 1, <<token>>, stack, NoError)

\* Lexer._process_token
ProcessToken(tokens, pos, stack) ==
    LET token == LexCurrent(tokens, pos)
    IN  CASE token.type = "COMMENT_START" -> SkipComment(tokens, pos, stack)
          [] token.type = "VAR_START" -> GroupVariable(tokens, pos, stack)
          [] token.type = "ATTR_START" -> GroupAttribute(tokens, pos, stack)
          [] token.type = "IMPORT_START" -> GroupImport(tokens, pos, stack)
          [] token.type = "JINJA_BLOCK_START" -> GroupJinjaBlock(tokens, pos, stack)
          [] token.type = "JINJA_COMMENT_START" -> SkipJinjaComment(tokens, pos, stack)
          [] OTHER ->
                IF token.type = "INDENT"
                THEN HandleIndent(tokens, pos, stack)
                ELSE LexOutcome(pos + 1, <<token>>, stack, NoError)

\* an end of the loop that closes nothing
NoFinalDedents(tokens, stack) == <<>>

\* Lexer.process, after the loop: one DEDENT per entry above the base
FinalDedents(tokens, stack) ==
    [i \in 1..(Len(stack) - 1) |-> Synthetic(tokens, Len(tokens), "DEDENT", <<>>)]

-----------------------------------------------------------------------------
(* AST nodes (parsing/ast_nodes.py)                                        *)

NoNode == [type |-> "None"]
\* Python's None for an optional text: no text holds a longer string
NoValue == <<"None">>

\* element_indent is the local of _parse_element_content, kept with the node
Element(tag_name, is_void, line, column, element_indent) ==
    [type |-> "Element", tag_name |-> tag_name, attributes |-> <<>>,
     children |-> <<>>, is_void |-> is_void, line |-> line, column |-> column,
     element_indent |-> element_indent]
Attribute(text, line, column) ==
    [type |-> "Attribute", content |-> text, line |-> line, column |-> column]
TextNode(text, line, column) ==
    [type |-> "TextNode", content |-> text, line |-> line, column |-> column]
Variable(name, default_value, line, column) ==
    [type |-> "Variable", name |-> name, default_value |-> default_value,
     line |-> line, column |-> column]
Import(path, params, line, column) ==
    [type |-> "Import", path |-> path, params |-> params,
     line |-> line, column |-> column]
JinjaBlock(text, block_type, line, column) ==
    [type |-> "JinjaBlock", content |-> text, block_type |-> block_type,
     line |-> line, column |-> column]
Document(children) == [type |-> "Document", children |-> children]

\* Element.add_attribute, Element.add_child
AddAttribute(element, attr) ==
    [element EXCEPT !.attributes = Append(@, attr)]
AddChild(element, child) ==
    [element EXCEPT !.children = Append(@, child)]

\* Variable.to_jinja
ToJinja(node) ==
    IF node.default_value # NoValue
    THEN <<"{", "{", " ">> \o node.name \o
         <<" ", "|", " ", "d", "e", "f", "a", "u", "l", "t", "(", "'">> \o
         node.default_value \o <<"'", ")", " ", "}", "}">>
    ELSE <<"{", "{", " ">> \o node.name \o <<" ", "}", "}">>

-----------------------------------------------------------------------------
(* PypxParser (parsing/parser.py)                                          *)
(* The parser state threaded through the recursive descent is              *)
(* [pos, current_indent, warnings].                                        *)

\* PypxParser._at_end, _current, _check
ParAtEnd(tokens, pos) == pos >= Len(tokens) \/ tokens[pos + 1].type = "EOF"
ParCurrent(tokens, pos) ==
    IF pos >= Len(tokens) THEN tokens[Len(tokens)] ELSE tokens[pos + 1]
Check(tokens, pos, types) ==
    ~ParAtEnd(tokens, pos) /\ ParCurrent(tokens, pos).type \in types

\* PypxParser._skip_newlines: the position after the newline tokens
SkipNewlines(tokens, pos) ==
    CHOOSE q \in pos..Len(tokens) :
        /\ ~Check(tokens, q, {"NEWLINE"})
        /\ \A r \in pos..(q - 1) : Check(tokens, r, {"NEWLINE"})

\* the index of the first occurrence of text t in s (0-based), or -1
Find(s, t) ==
    IF Contains(s, t)
    THEN CHOOSE p \in 0..Len(s) :
             OccursAt(s, t, p) /\ \A r \in 0..(p - 1) : ~OccursAt(s, t, r)
    ELSE -1

\* PypxParser._parse_attribute, _parse_text
ParseAttribute(token) == Attribute(token.value, token.line, token.column)
ParseText(token) == TextNode(token.value, token.line, token.column)

\* PypxParser._parse_variable: split on the first "="
ParseVariable(token) ==
    LET text == token.value
        eq == Find(text, <<"=">>)
    IN  IF eq >= 0
        THEN Variable(Strip(Slice(text, 0, eq)), Strip(SliceFrom(text, eq + 1)),
                      token.line, token.column)
        ELSE Variable(text, NoValue, token.line, token.column)

\* PypxParser._parse_import: split on the first "||"
ParseImport(token) ==
    LET text == token.value
        bar == Find(text, <<"|", "|">>)
    IN  IF bar >= 0
        THEN Import(Strip(Slice(text, 0, bar)), Strip(SliceFrom(text, bar + 2)),
                    token.line, token.column)
        ELSE Import(text, NoValue, token.line, token.column)

\* PypxParser._parse_jinja_block: the block type is the first word inside
ParseJinjaBlock(token) ==
    LET text == token.value
        inner == IF OccursAt(text, <<"%", "}">>, Len(text) - 2)
                 THEN Strip(Slice(text, 2, Len(text) - 2))
                 ELSE Strip(SliceFrom(text, 2))
        block_type == IF OccursAt(text, <<"{", "%">>, 0) /\ inner # <<>>
                      THEN FirstWord(inner)
                      ELSE NoValue
    IN  JinjaBlock(text, block_type, token.line, token.column)

\* the deepest chain of _parse_node calls the interpreter's stack holds; one
\* more raises RecursionError
MaxFrames == 8

\* overflow: RecursionError was raised and unwinds the parser
ParState(pos, current_indent, warned) ==
    [pos |-> pos, current_indent |-> current_indent, warnings |-> warned,
     overflow |-> FALSE]
Parsed(node, st) == [node |-> node, st |-> st]

\* frames: the calls of _parse_node that are open
RECURSIVE ParseNode(_, _, _)
RECURSIVE ParseInline(_, _, _)
RECURSIVE ParseChildren(_, _, _, _, _)

\* PypxParser._parse_element_content, the loop over the same-line content:
\* [node |-> the element, st |-> the parser state after it]
ParseInline(tokens, element, st) ==
    LET token == ParCurrent(tokens, st.pos)
        next == [st EXCEPT !.pos = @ + 1]
    IN  IF ParAtEnd(tokens, st.pos) \/ Check(tokens, st.pos, {"NEWLINE", "EOF"})
        THEN Parsed(element, st)
        ELSE IF Check(tokens, st.pos, {"ATTR_CONTENT"})
        THEN ParseInline(tokens, AddAttribute(element, ParseAttribute(token)), next)
        ELSE IF Check(tokens, st.pos, {"VAR_CONTENT"})
        THEN ParseInline(tokens, AddChild(element, ParseVariable(token)), next)
        ELSE IF Check(tokens, st.pos, {"IMPORT_CONTENT"})
        THEN ParseInline(tokens, AddChild(element, ParseImport(token)), next)
        ELSE IF Check(tokens, st.pos, {"TEXT"})
        THEN ParseInline(tokens, AddChild(element, ParseText(token)), next)
        ELSE Parsed(element, st)

\* PypxParser._parse_element_content, the loop over the indented lines
ParseChildren(tokens, element, element_indent, st, frames) ==
    IF st.overflow \/ ParAtEnd(tokens, st.pos) THEN Parsed(element, st)
    ELSE IF Check(tokens, st.pos, {"INDENT"})
    THEN LET next_indent == Len(ParCurrent(tokens, st.pos).value)
         IN  IF next_indent > element_indent
             THEN LET r == ParseNode(tokens,
                               [st EXCEPT !.pos = @ + 1,
                                          !.current_indent = next_indent],
                               frames)
                      child == r.node
                  IN  IF child.type = "None"
                      THEN ParseChildren(tokens, element, element_indent, r.st,
                                         frames)
                      ELSE IF child.type = "Attribute"
                      THEN ParseChildren(tokens, AddAttribute(element, child),
                                         element_indent, r.st, frames)
                      ELSE ParseChildren(tokens, AddChild(element, child),
                                         element_indent, r.st, frames)
             ELSE Parsed(element, st)
    ELSE IF Check(tokens, st.pos, {"DEDENT"}) THEN Parsed(element, st)
    ELSE IF Check(tokens, st.pos, {"NEWLINE"})
    THEN ParseChildren(tokens, element, element_indent,
                       [st EXCEPT !.pos = @ + 1], frames)
    ELSE Parsed(element, st)

\* PypxParser._parse_element_content
ParseElementContent(tokens, element, st, frames) ==
    LET inline == ParseInline(tokens, element, st)
        after == IF Check(tokens, inline.st.pos, {"NEWLINE"})
                 THEN [inline.st EXCEPT !.pos = @ + 1]
                 ELSE inline.st
    IN  ParseChildren(tokens, inline.node, st.current_indent, after, frames)

\* PypxParser._parse_element
ParseElement(tokens, st, frames) ==
    LET token == ParCurrent(tokens, st.pos)
        tag_name == token.value
        element == Element(tag_name, Lower(tag_name) \in VOID_ELEMENTS,
                           token.line, token.column, st.current_indent)
    IN  ParseElementContent(tokens, element, [st EXCEPT !.pos = @ + 1], frames)

\* PypxParser._parse_node
ParseNode(tokens, st0, frames) ==
    LET pos == SkipNewlines(tokens, st0.pos)
        st == [st0 EXCEPT !.pos = pos]
        token == ParCurrent(tokens, pos)
        next == [st EXCEPT !.pos = @ + 1]
    IN  IF frames >= MaxFrames
        THEN Parsed(NoNode, [st0 EXCEPT !.overflow = TRUE])
        ELSE IF ParAtEnd(tokens, pos) THEN Parsed(NoNode, st)
        ELSE IF token.type = "INDENT"
        THEN ParseNode(tokens, [next EXCEPT !.current_indent = Len(token.value)],
                       frames + 1)
        ELSE IF token.type = "DEDENT" THEN Parsed(NoNode, next)
        ELSE IF token.type = "IDENTIFIER" THEN ParseElement(tokens, st, frames + 1)
        ELSE IF token.type = "VAR_CONTENT" THEN Parsed(ParseVariable(token), next)
        ELSE IF token.type = "IMPORT_CONTENT" THEN Parsed(ParseImport(token), next)
        ELSE IF token.type = "JINJA_BLOCK" THEN Parsed(ParseJinjaBlock(token), next)
        ELSE IF token.type = "ATTR_CONTENT" THEN Parsed(ParseAttribute(token), next)
        ELSE IF token.type = "TEXT" THEN Parsed(ParseText(token), next)
        ELSE Parsed(NoNode, [next EXCEPT !.warnings = Append(@, token.type)])

\* PypxParser.parse, the top-level loop: [children, warnings, raised]
RECURSIVE ParseTop(_, _, _)
ParseTop(tokens, children, st) ==
    IF st.overflow \/ ParAtEnd(tokens, st.pos)
    THEN [children |-> children, warnings |-> st.warnings,
          raised |-> st.overflow]
    ELSE LET r == ParseNode(tokens, st, 0)
         IN  ParseTop(tokens,
                      IF r.node.type = "None" THEN children ELSE Append(children, r.node),
                      r.st)

\* PypxParser.parse
ParseTokens(tokens) == ParseTop(tokens, <<>>, ParState(0, 0, <<>>))

-----------------------------------------------------------------------------
(* HTMLGenerator (codegen/html_generator.py)                               *)

RECURSIVE Visit(_)
RECURSIVE VisitAll(_)

\* the emissions of a list of nodes, in order
VisitAll(nodes) ==
    IF nodes = <<>> THEN <<>> ELSE Visit(Head(nodes)) \o VisitAll(Tail(nodes))

\* a visit_element that closes every childless element with " />"
VisitElementSelfClosing(node) ==
    LET tag_lower == Lower(node.tag_name)
        is_void == tag_lower \in VOID_ELEMENTS
        is_known_element == tag_lower \in ELEMENTS_WITH_CLOSING_TAG \/ is_void
        has_children == Len(node.children) > 0
        has_attributes == Len(node.attributes) > 0
        open == <<"<">> \o node.tag_name \o VisitAll(node.attributes)
        close == <<"<", "/">> \o node.tag_name \o <<">">>
    IN  IF ~is_known_element /\ ~has_children /\ ~has_attributes
        THEN node.tag_name \o <<"\n">>
        ELSE IF ~has_children THEN open \o <<" ", "/", ">">>
        ELSE open \o <<">">> \o VisitAll(node.children) \o close

\* HTMLGenerator.visit_element
VisitElement(node) ==
    LET tag_lower == Lower(node.tag_name)
        is_void == tag_lower \in VOID_ELEMENTS
        is_known_element == tag_lower \in ELEMENTS_WITH_CLOSING_TAG \/ is_void
        has_children == Len(node.children) > 0
        has_attributes == Len(node.attributes) > 0
        open == <<"<">> \o node.tag_name \o VisitAll(node.attributes)
        close == <<"<", "/">> \o node.tag_name \o <<">">>
    IN  IF ~is_known_element /\ ~has_children /\ ~has_attributes
        THEN node.tag_name \o <<"\n">>
        ELSE IF is_void /\ ~has_children THEN open \o <<" ", "/", ">">>
        ELSE IF ~has_children /\ is_known_element THEN open \o <<">">> \o close
        ELSE IF ~has_children THEN open \o <<" ", "/", ">">>
        ELSE open \o <<">">> \o VisitAll(node.children) \o close

\* HTMLGenerator.visit_import
VisitImport(node) ==
    IF node.params # NoValue /\ node.params # <<>>
    THEN <<"[", "[">> \o node.path \o <<"|", "|">> \o node.params \o <<"]", "]">>
    ELSE <<"[", "[">> \o node.path \o <<"]", "]">>

\* ASTNode.accept: dispatch on the node type
Visit(node) ==
    CASE node.type = "Document" -> VisitAll(node.children)
      [] node.type = "Element" -> VisitElement(node)
      [] node.type = "Attribute" -> <<" ">> \o node.content
      [] node.type = "TextNode" -> node.content
      [] node.type = "Variable" -> ToJinja(node)
      [] node.type = "Import" -> VisitImport(node)
      [] node.type = "JinjaBlock" -> node.content \o <<"\n">>
      [] node.type = "JinjaComment" -> <<>>

\* HTMLGenerator.generate
Generate(ast) == Visit(ast)

-----------------------------------------------------------------------------
(* The sources compiled                                                    *)

MaxLines == 4       \* the lines of a source of bare tags
MaxLevel == 2       \* its deepest indentation level
IndentUnit == 4     \* the spaces of one indentation level

B_tag == <<"p">>
B_void == <<"b", "r">>
B_words == <<"H", "e", "l", "l", "o", " ", "W", "o", "r", "l", "d">>
B_unknown == <<"f", "o", "o">>
B_text_var == <<"V", "a", "l", "u", "e", ":", " ", "{", "{", "m", "y", "_", "v", "a", "r", "}", "}">>
B_var_default == <<"{", "{", "x", "=", "D", "}", "}">>
B_var_quote == <<"{", "{", "x", "=", "a", "'", "b", "}", "}">>
B_jinja == <<"{", "%", " ", "i", "f", " ", "x", " ", "%", "}">>
B_attr == <<";", ";", "i", "d", "=", "1", ";", ";">>
B_tag_attr == <<"p", " ", ";", ";", "i", "d", "=", "1", ";", ";">>
B_tag_text == <<"p", " ", "H", "i", ",", " ", "y", "o", "u", ".">>
B_comment == <<":", ":", " ", "n", "o", "t", "e", " ", ":", ":">>
B_import == <<"[", "[", "c", ".", "p", "y", "p", "x", "]", "]">>
B_import_params == <<"[", "[", "c", ".", "p", "y", "p", "x", "|", "|", "k", "=", "1", "]", "]">>
B_jinja_comment == <<"{", "#", " ", "n", " ", "#", "}">>
B_tab_tag == <<"\t", "p">>
B_tag_tab == <<"p", "\t", "x">>
B_stray_end == <<"}", "}">>
B_open_var == <<"{", "{", " ", "s", "t", "a", "r", "t">>
B_open_comment == <<":", ":", " ", "x">>
B_open_attr == <<";", ";", " ", "x">>
B_open_import == <<"[", "[", " ", "x">>
B_open_jinja == <<"{", "%", " ", "x">>
B_open_jinja_comment == <<"{", "#", " ", "x">>

Bodies ==
    {B_tag, B_void, B_words, B_unknown, B_text_var, B_var_default, B_var_quote,
     B_jinja, B_attr, B_tag_attr, B_tag_text, B_comment, B_import,
     B_import_params, B_jinja_comment, B_tab_tag, B_tag_tab, B_stray_end,
     B_open_var, B_open_comment, B_open_attr, B_open_import, B_open_jinja,
     B_open_jinja_comment}

Spaces(n) == [i \in 1..n |-> " "]

RECURSIVE JoinLines(_)
JoinLines(lines) ==
    IF Len(lines) = 0 THEN <<>>
    ELSE IF Len(lines) = 1 THEN lines[1]
    ELSE lines[1] \o <<"\n">> \o JoinLines(Tail(lines))

\* up to MaxLines lines, each the bare tag p at some indentation level
TreeSources ==
    UNION {{JoinLines([i \in 1..n |-> Spaces(level[i] * IndentUnit) \o B_tag]) :
                level \in [1..n -> 0..MaxLevel]} : n \in 1..MaxLines}

\* one line, or two lines with the second one at level 0 or 1
LineSources ==
    Bodies \cup
    {JoinLines(<<first, Spaces(w) \o second>>) :
        first \in Bodies, second \in Bodies, w \in {0, IndentUnit}}

Sources == TreeSources \cup LineSources

\* str.split(sep) for a one-character separator
RECURSIVE SplitOn(_, _)
SplitOn(s, sep) ==
    IF sep \notin Range(s) THEN <<s>>
    ELSE LET i == CHOOSE i \in 1..Len(s) :
                      s[i] = sep /\ \A j \in 1..(i-1) : s[j] # sep
         IN  <<SubSeq(s, 1, i - 1)>> \o SplitOn(SubSeq(s, i + 1, Len(s)), sep)
SplitLines(s) == SplitOn(s, "\n")

\* the width of the leading run of spaces of a line
LeadingSpaces(l) == ScanIndentationEnd(l, 0)

-----------------------------------------------------------------------------
(* The compilation run: Tokenizer.tokenize, Lexer.process,                 *)
(* PypxParser.parse, HTMLGenerator.generate                                *)

Idle ==
    /\ files = <<>> /\ current_file = <<>> /\ content = <<>>
    /\ given = <<>>
    /\ old_content = <<>> /\ depth = 0 /\ passes = 0 /\ result = <<>>
    /\ import_stack = {}
    /\ layout_file = <<>> /\ layout_cache = <<>> /\ page = <<>>
    /\ IdleRest

\* Tokenizer.__init__, and the Lexer as constructed after tokenize
Init ==
    /\ raw_source \in Sources
    /\ source = NormalizeTabs(raw_source)
    /\ pc = "tokenize"
    /\ tk_pos = 0 /\ tk_line = 1 /\ tk_column = 1 /\ tk_tokens = <<>>
    /\ lx_pos = 0 /\ lx_output = <<>> /\ indent_stack = <<0>>
    /\ lx_error = NoError
    /\ document = Document(<<>>) /\ warnings = <<>> /\ html = <<>>
    /\ logs = {} /\ raised = FALSE
    /\ Idle

\* Tokenizer.tokenize: one turn of the loop, a call of _scan_token
Tokenize ==
    /\ pc = "tokenize"
    /\ tk_pos < Len(source)
    /\ LET r == ScanToken(source, tk_pos, tk_line, tk_column)
       IN  /\ tk_pos' = r.pos
           /\ tk_line' = r.line
           /\ tk_column' = r.column
           /\ tk_tokens' = tk_tokens \o r.emitted
    /\ UNCHANGED <<raw_source, source, pc, lx_pos, lx_output, indent_stack,
                   lx_error, document, warnings, html, logs, raised, result>>
    /\ UNCHANGED <<resolveVars, layoutVars, restVars>>

\* a loop that is also left at the end of a line
TokenizeEndAtLineEnd ==
    /\ pc = "tokenize"
    /\ tk_pos >= Len(source) \/ Peek(source, tk_pos) = "\n"
    /\ tk_tokens' = Append(tk_tokens, Token("EOF", <<>>, tk_line, tk_column))
    /\ pc' = "lex"
    /\ UNCHANGED <<raw_source, source, tk_pos, tk_line, tk_column, lx_pos,
                   lx_output, indent_stack, lx_error, document, warnings, html,
                   logs, raised, result>>
    /\ UNCHANGED <<resolveVars, layoutVars, restVars>>

\* Tokenizer.tokenize: the end of the loop, EOF is emitted
TokenizeEnd ==
    /\ pc = "tokenize"
    /\ tk_pos >= Len(source)
    /\ tk_tokens' = Append(tk_tokens, Token("EOF", <<>>, tk_line, tk_column))
    /\ pc' = "lex"
    /\ UNCHANGED <<raw_source, source, tk_pos, tk_line, tk_column, lx_pos,
                   lx_output, indent_stack, lx_error, document, warnings, html,
                   logs, raised, result>>
    /\ UNCHANGED <<resolveVars, layoutVars, restVars>>

\* Lexer.process: one turn of the loop, a call of _process_token
LexProcess ==
    /\ pc = "lex"
    /\ ~LexAtEnd(tk_tokens, lx_pos)
    /\ LET r == ProcessToken(tk_tokens, lx_pos, indent_stack)
       IN  IF r.error.kind = "LexerError"
           THEN /\ lx_error' = r.error
                /\ raised' = TRUE
                /\ pc' = "lex_error"
                /\ UNCHANGED <<lx_pos, lx_output, indent_stack>>
           ELSE /\ lx_pos' = r.pos
                /\ lx_output' = lx_output \o r.emitted
                /\ indent_stack' = r.stack
                /\ UNCHANGED <<lx_error, raised, pc>>
    /\ UNCHANGED <<raw_source, source, tk_pos, tk_line, tk_column, tk_tokens,
                   document, warnings, html, logs, result>>
    /\ UNCHANGED <<resolveVars, layoutVars, restVars>>

\* Lexer.process: after the loop, the remaining indents are closed
LexFinish ==
    /\ pc = "lex"
    /\ LexAtEnd(tk_tokens, lx_pos)
    /\ lx_output' = lx_output \o FinalDedents(tk_tokens, indent_stack)
    /\ indent_stack' = SubSeq(indent_stack, 1, 1)
    /\ pc' = "parse"
    /\ UNCHANGED <<raw_source, source, tk_pos, tk_line, tk_column, tk_tokens,
                   lx_pos, lx_error, document, warnings, html, logs, raised,
                   result>>
    /\ UNCHANGED <<resolveVars, layoutVars, restVars>>

\* PypxParser.parse
Parse ==
    /\ pc = "parse"
    /\ LET r == ParseTokens(lx_output)
       IN  IF r.raised
           THEN /\ raised' = TRUE
                /\ pc' = "parse_error"
                /\ warnings' = r.warnings
                /\ UNCHANGED document
           ELSE /\ document' = Document(r.children)
                /\ warnings' = r.warnings
                /\ pc' = "generate"
                /\ UNCHANGED raised
    /\ UNCHANGED <<raw_source, source, tk_pos, tk_line, tk_column, tk_tokens,
                   lx_pos, lx_output, indent_stack, lx_error, html, logs,
                   result>>
    /\ UNCHANGED <<resolveVars, layoutVars, restVars>>

\* HTMLGenerator.generate
GenerateHtml ==
    /\ pc = "generate"
    /\ html' = Generate(document)
    /\ pc' = "done"
    /\ UNCHANGED <<raw_source, source, tk_pos, tk_line, tk_column, tk_tokens,
                   lx_pos, lx_output, indent_stack, lx_error, document,
                   warnings, logs, raised, result>>
    /\ UNCHANGED <<resolveVars, layoutVars, restVars>>

Next ==
    \/ Tokenize
    \/ TokenizeEnd
    \/ LexProcess
    \/ LexFinish
    \/ Parse
    \/ GenerateHtml

Spec == Init /\ [][Next]_vars

-----------------------------------------------------------------------------
(* ImportResolver.IMPORT_PATTERN (components/import_resolver.py)           *)
(*   \[\[\s*([a-zA-Z0-9. _/\\-]+)\s*(?:\|\|\s*(.*?))?\s*\]\]              *)

\* the class [a-zA-Z0-9. _/\\-] and the class \s
PathChar(c) == IsAlnum(c) \/ c \in {".", " ", "_", "/", "\\", "-"}
RegexSpace(c) == c \in Whitespace

NoMatch == [matched |-> FALSE]

\* the end of the longest run of characters satisfying Test from position p
RunEnd(s, p, Test(_)) ==
    CHOOSE q \in p..Len(s) :
        /\ q = Len(s) \/ ~Test(s[q + 1])
        /\ \A r \in p..(q - 1) : Test(s[r + 1])

\* whether \s*([...]+)\s* can cover the whole run r: blanks, then at least
\* one path character, then blanks
CoversRun(r) ==
    \E a \in 0..Len(r) : \E b \in (a + 1)..Len(r) :
        /\ \A i \in 1..a : RegexSpace(r[i])
        /\ \A i \in (a + 1)..b : PathChar(r[i])
        /\ \A i \in (b + 1)..Len(r) : RegexSpace(r[i])

\* re.match of IMPORT_PATTERN at 0-based position i of s:
\* [matched, end, filename (group 1 stripped), params (group 2 or NoValue)]
MatchAt(s, i) ==
    IF ~OccursAt(s, <<"[", "[">>, i) THEN NoMatch
    ELSE
    LET k == RunEnd(s, i + 2, LAMBDA c : PathChar(c) \/ RegexSpace(c))
        run == Slice(s, i + 2, k)
    IN  IF ~CoversRun(run) THEN NoMatch
        ELSE IF OccursAt(s, <<"]", "]">>, k)
        THEN [matched |-> TRUE, end |-> k + 2, filename |-> Strip(run),
              params |-> NoValue]
        ELSE IF ~OccursAt(s, <<"|", "|">>, k) THEN NoMatch
        ELSE
        \* \s*(.*?)\s*\]\] : the lazy group ends before the blanks that
        \* precede the first "]]"; "." does not match a line break
        LET m == RunEnd(s, k + 2, RegexSpace)
            closes == {e \in m..Len(s) : OccursAt(s, <<"]", "]">>, e)}
        IN  IF closes = {} THEN NoMatch
            ELSE
            LET e == CHOOSE e \in closes : \A f \in closes : e <= f
                t == CHOOSE t \in m..e :
                         /\ \A r \in t..(e - 1) : RegexSpace(s[r + 1])
                         /\ t = m \/ ~RegexSpace(s[t])
                group2 == Slice(s, m, t)
            IN  IF "\n" \in Range(group2) THEN NoMatch
                ELSE [matched |-> TRUE, end |-> e + 2, filename |-> Strip(run),
                      params |-> group2]


-----------------------------------------------------------------------------
(* FileManager.get_file_if_valid (components/file_manager.py) and the      *)
(* compilation of an imported .pypx file                                   *)

\* the deepest chain of nested .pypx compilations the interpreter's stack
\* holds; one more raises RecursionError
MaxNesting == 3

\* config.module_root, as path segments
ModuleRoot == << <<"w">>, <<"c">> >>

LogEntry(kind, subject) == [kind |-> kind, subject |-> subject]

MaxOf(S) == CHOOSE x \in S : \A y \in S : y <= x

\* os.path.normpath over path segments
RECURSIVE NormSegments(_, _)
NormSegments(segs, acc) ==
    IF segs = <<>> THEN acc
    ELSE LET s == Head(segs)
         IN  NormSegments(Tail(segs),
                 IF s = <<>> \/ s = <<".">> THEN acc
                 ELSE IF s = <<".", ".">>
                      THEN IF acc = <<>> THEN acc
                           ELSE SubSeq(acc, 1, Len(acc) - 1)
                      ELSE Append(acc, s))

\* os.path.abspath(os.path.join(module_root, path))
FullPath(path) ==
    IF path # <<>> /\ path[1] = "/"
    THEN NormSegments(SplitOn(path, "/"), <<>>)
    ELSE NormSegments(SplitOn(path, "/"), ModuleRoot)

\* a containment test that looks at the first directory only
InsideFirstDirectory(full) == Len(full) >= 1 /\ full[1] = ModuleRoot[1]

\* os.path.commonpath([module_root, full_path]) == module_root
InsideRoot(full) ==
    /\ Len(full) >= Len(ModuleRoot)
    /\ SubSeq(full, 1, Len(ModuleRoot)) = ModuleRoot

\* os.path.splitext(path)[1][1:]
FileType(path) ==
    LET slashes == {i \in 1..Len(path) : path[i] = "/"}
        base == IF slashes = {} THEN 1 ELSE MaxOf(slashes) + 1
        dots == {i \in base..Len(path) : path[i] = "."}
    IN  IF dots = {} \/ \A j \in base..(MaxOf(dots) - 1) : path[j] = "."
        THEN <<>>
        ELSE SubSeq(path, MaxOf(dots) + 1, Len(path))

\* os.path.exists(full_path)
Exists(full) == full \in DOMAIN files

\* Tokenizer(text).tokenize()
RECURSIVE TokenizeFrom(_, _, _, _)
TokenizeFrom(src, pos, line, column) ==
    IF pos >= Len(src) THEN <<Token("EOF", <<>>, line, column)>>
    ELSE LET r == ScanToken(src, pos, line, column)
         IN  r.emitted \o TokenizeFrom(src, r.pos, r.line, r.column)
TokenizeAll(text) == TokenizeFrom(NormalizeTabs(text), 0, 1, 1)

\* Lexer(tokens).process()
RECURSIVE LexFrom(_, _, _)
LexFrom(tokens, pos, stack) ==
    IF LexAtEnd(tokens, pos)
    THEN [error |-> NoError, output |-> FinalDedents(tokens, stack)]
    ELSE LET r == ProcessToken(tokens, pos, stack)
         IN  IF r.error.kind = "LexerError"
             THEN [error |-> r.error, output |-> <<>>]
             ELSE LET rest == LexFrom(tokens, r.pos, r.stack)
                  IN  [error |-> rest.error,
                       output |-> r.emitted \o rest.output]
LexAll(tokens) == LexFrom(tokens, 0, <<0>>)

\* the end of a compilation that was lexed: parse, generate
CompileParsed(parsed) ==
    IF parsed.raised
    THEN [raised |-> TRUE, html |-> <<>>]
    ELSE [raised |-> FALSE, html |-> Generate(Document(parsed.children))]

\* the compilation of one pypx text: tokenize, lex, parse, generate
CompilePypx(text) ==
    LET lexed == LexAll(TokenizeAll(text))
    IN  IF lexed.error.kind = "LexerError"
        THEN [raised |-> TRUE, html |-> <<>>]
        ELSE CompileParsed(ParseTokens(lexed.output))

\* open(full_path).read() succeeds: a regular, readable file
Readable(full) == full \in DOMAIN files /\ files[full].readable

\* a directory of the file system: the root, or an ancestor of a file
IsDirectory(full) ==
    \/ \E n \in 0..Len(ModuleRoot) : full = SubSeq(ModuleRoot, 1, n)
    \/ \E f \in DOMAIN files :
           Len(f) > Len(full) /\ SubSeq(f, 1, Len(full)) = full

Loaded(value, is_parser, lg, r) ==
    [value |-> value, is_parser |-> is_parser, logs |-> lg, raised |-> r]

Outcome(text, lg, r) == [text |-> text, logs |-> lg, raised |-> r]

\* F of the value of v, with v evaluated once
Value(v, F(_)) == CHOOSE r \in {F(x) : x \in {v}} : TRUE

MAX_DEPTH == 100

RECURSIVE ParserCompile(_, _)
RECURSIVE GetFileIfValid(_, _)
RECURSIVE ReplaceImport(_, _, _, _)
RECURSIVE SubFrom(_, _, _, _)
RECURSIVE ResolveImports(_, _, _, _, _)

\* what raising inside Parser leaves behind
ParserRaised == [raised |-> TRUE, template_string |-> <<>>, logs |-> {}]

\* the Parser whose resolver has returned r
ParserOf(r) ==
    Value(r, LAMBDA x : [raised |-> x.raised, template_string |-> x.text,
                         logs |-> x.logs])

\* xtracto.Parser(path=path, module=True).template_string: the file is
\* read and compiled by its own pipeline run, and its imports are resolved
\* by its own resolver with the file as current_file.  The pipeline is a
\* function of the text, so its outcome is kept with the file (compiled).
\* fuel is the room left on the interpreter's stack.
ParserCompile(path, fuel) ==
    IF fuel = 0 \/ ~Readable(FullPath(path)) THEN ParserRaised
    ELSE IF files[FullPath(path)].compiled.raised THEN ParserRaised
    ELSE ParserOf(ResolveImports(files[FullPath(path)].compiled.html, <<>>,
                                 0, {path}, fuel - 1))

\* the .pypx branch of get_file_if_valid without its try: what Parser
\* raises is raised again
ParsedUncaught(path, p) ==
    Value(p, LAMBDA x : Loaded(x.template_string, TRUE, x.logs, x.raised))

\* get_file_if_valid, the .pypx branch: the Parser, or "" and an error
\* logged when constructing it raised
ParsedOrEmpty(path, p) ==
    Value(p, LAMBDA x :
        IF x.raised
        THEN Loaded(<<>>, FALSE, x.logs \cup {LogEntry("pypx_error", path)},
                    FALSE)
        ELSE Loaded(x.template_string, TRUE, x.logs, FALSE))

\* FileManager.get_file_if_valid
GetFileIfValid(path, fuel) ==
    IF ~InsideRoot(FullPath(path))
    THEN Loaded(<<>>, FALSE, {LogEntry("path_traversal", path)}, FALSE)
    ELSE IF ~(Exists(FullPath(path)) \/ IsDirectory(FullPath(path)))
    THEN Loaded(<<>>, FALSE, {LogEntry("file_not_found", path)}, FALSE)
    ELSE IF FileType(path) = <<"p", "y", "p", "x">>
    THEN ParsedOrEmpty(path, ParserCompile(path, fuel))
    ELSE IF ~Readable(FullPath(path))
    THEN Loaded(<<>>, FALSE, {LogEntry("read_error", path)}, FALSE)
    ELSE Loaded(files[FullPath(path)].text, FALSE, {}, FALSE)

\* "{% with params %}" + file_content + "{% endwith %}"
WithParams(params_str, file_content) ==
    <<"{", "%", " ", "w", "i", "t", "h", " ">> \o params_str
        \o <<" ", "%", "}">> \o file_content
        \o <<"{", "%", " ", "e", "n", "d", "w", "i", "t", "h", " ", "%", "}">>

\* _replace_import once the loader has returned cont
SpliceImport(filename, params_str, cont) ==
    Value(cont, LAMBDA x :
        IF x.raised THEN Outcome(<<>>, x.logs, TRUE)
        ELSE IF ~x.is_parser /\ x.value = <<>>
        THEN Outcome(<<>>,
                     x.logs \cup {LogEntry("import_not_found", filename)},
                     FALSE)
        ELSE IF params_str # NoValue /\ params_str # <<>>
        THEN Outcome(WithParams(params_str, x.value), x.logs, FALSE)
        ELSE Outcome(x.value, x.logs, FALSE))

\* _replace_import without the test of the import stack
ReplaceImportUnchecked(filename, params_str, stack, fuel) ==
    SpliceImport(filename, params_str, GetFileIfValid(filename, fuel))

\* ImportResolver._replace_import
ReplaceImport(filename, params_str, stack, fuel) ==
    IF filename \in stack
    THEN Outcome(<<>>, {LogEntry("circular_import", filename)}, FALSE)
    ELSE SpliceImport(filename, params_str, GetFileIfValid(filename, fuel))

\* a then b, b only if a did not raise
Then(a, b) ==
    Value(a, LAMBDA x :
        IF x.raised THEN x
        ELSE Value(b, LAMBDA y :
                 Outcome(x.text \o y.text, x.logs \cup y.logs, y.raised)))

\* the match m of s replaced, after the text before it from position i,
\* and the rest of the pass
SubMatch(s, i, j, m, stack, fuel) ==
    Then(Outcome(SubSeq(s, i + 1, j), {}, FALSE),
         Then(ReplaceImport(m.filename, m.params, stack, fuel),
              SubFrom(s, m.end, stack, fuel)))

\* the positions from i on where IMPORT_PATTERN matches
MatchStarts(s, i) == {j \in i..(Len(s) - 1) : MatchAt(s, j).matched}

\* the pass from position i on, the pattern matching at the positions starts
SubAt(s, i, starts, stack, fuel) ==
    IF starts = {} THEN Outcome(SubSeq(s, i + 1, Len(s)), {}, FALSE)
    ELSE Value(CHOOSE j \in starts : \A k \in starts : j <= k, LAMBDA j :
             SubMatch(s, i, j, MatchAt(s, j), stack, fuel))

\* IMPORT_PATTERN.sub(self._replace_import, content), from position i on
SubFrom(s, i, stack, fuel) ==
    IF i >= Len(s) THEN Outcome(<<>>, {}, FALSE)
    ELSE SubAt(s, i, MatchStarts(s, i), stack, fuel)

\* the passes after a pass over c that returned s
LaterPasses(s, c, d, stack, fuel) ==
    IF s.raised THEN s
    ELSE Value(ResolveImports(s.text, c, d + 1, stack, fuel), LAMBDA rest :
             Outcome(rest.text, s.logs \cup rest.logs, rest.raised))

\* ImportResolver._resolve_imports, run to its end
ResolveImports(c, old, d, stack, fuel) ==
    IF old = c THEN Outcome(c, {}, FALSE)
    ELSE IF d + 1 > MAX_DEPTH
    THEN Outcome(c, {LogEntry("too_deep", <<>>)}, FALSE)
    ELSE Value(SubFrom(c, 0, stack, fuel), LAMBDA s :
             LaterPasses(s, c, d, stack, fuel))

-----------------------------------------------------------------------------
(* ImportResolver.resolve (components/import_resolver.py) over a small     *)
(* component root                                                          *)

\* file names, as written in an import
F_a_html == <<"a", ".", "h", "t", "m", "l">>
F_b_html == <<"b", ".", "h", "t", "m", "l">>
F_a_pypx == <<"a", ".", "p", "y", "p", "x">>
F_b_pypx == <<"b", ".", "p", "y", "p", "x">>
F_page == <<"p", "a", "g", "e", ".", "p", "y", "p", "x">>
F_missing == <<"m", ".", "h", "t", "m", "l">>
F_outside == <<".", ".", "/", "s", ".", "h", "t", "m", "l">>

\* file texts
T_plain == <<"x">>
T_empty == <<>>
T_import_a_html == <<"[", "[", "a", ".", "h", "t", "m", "l", "]", "]">>
T_import_b_html == <<"[", "[", " ", "b", ".", "h", "t", "m", "l", " ", "]", "]">>
T_import_a_pypx == <<"[", "[", "a", ".", "p", "y", "p", "x", "]", "]">>
T_import_b_pypx == <<"[", "[", "b", ".", "p", "y", "p", "x", "]", "]">>
T_tag == <<"p">>
T_open_var == <<"{", "{", " ", "s", "t", "a", "r", "t">>
T_secret == <<"s">>

File(text) == [text |-> text, readable |-> TRUE]
\* a .pypx file, with what the pipeline makes of its text
PypxFile(text) ==
    [text |-> text, readable |-> TRUE, compiled |-> CompilePypx(text)]
Unreadable == [text |-> <<>>, readable |-> FALSE]
Absent == [absent |-> TRUE]

\* what each file of the root may be; Absent is a file that does not exist
StaticA == {Absent, Unreadable, File(T_plain), File(T_empty),
            File(T_import_a_html), File(T_import_b_html)}
StaticB == {Absent, File(T_plain), File(T_import_a_html)}
PypxA == {Absent, PypxFile(T_tag), PypxFile(T_open_var),
          PypxFile(T_import_a_pypx), PypxFile(T_import_b_pypx)}
PypxB == {Absent, PypxFile(T_tag), PypxFile(T_import_a_pypx)}

\* the file system with the given files; a file next to the root, outside
\* it, is always there
FileSystem(a, b, pa, pb) ==
    LET all == [p \in {FullPath(F_a_html), FullPath(F_b_html),
                       FullPath(F_a_pypx), FullPath(F_b_pypx),
                       FullPath(F_outside)} |->
                   CASE p = FullPath(F_a_html) -> a
                     [] p = FullPath(F_b_html) -> b
                     [] p = FullPath(F_a_pypx) -> pa
                     [] p = FullPath(F_b_pypx) -> pb
                     [] OTHER -> File(T_secret)]
    IN  [p \in {x \in DOMAIN all : all[x] # Absent} |-> all[p]]

\* a root of static files, or a root of .pypx components
FileSystems ==
    {FileSystem(a, b, Absent, Absent) : a \in StaticA, b \in StaticB}
        \cup {FileSystem(Absent, Absent, pa, pb) : pa \in PypxA, pb \in PypxB}

\* "[[" + inner + "]]"
Placeholder(inner) == <<"[", "[">> \o inner \o <<"]", "]">>

\* prefix + placeholder + suffix
Around(inner) == <<"<">> \o Placeholder(inner) \o <<">">>

ImportNames == {F_a_html, F_b_html, F_a_pypx, F_b_pypx, F_missing, F_outside}

\* the texts handed to resolve
Contents ==
    {T_plain, T_empty}
        \cup {Around(f) : f \in ImportNames}
        \cup {Placeholder(F_a_pypx), Placeholder(F_a_html),
              Placeholder(F_a_html \o <<"|", "|", "k", "=", "1">>),
              Placeholder(F_a_html) \o Placeholder(F_b_html)}

CurrentFiles == {NoValue, F_page, F_a_pypx}

IdleCompile ==
    /\ raw_source = <<>> /\ source = <<>>
    /\ tk_pos = 0 /\ tk_line = 1 /\ tk_column = 1 /\ tk_tokens = <<>>
    /\ lx_pos = 0 /\ lx_output = <<>> /\ indent_stack = <<0>>
    /\ lx_error = NoError
    /\ document = Document(<<>>) /\ warnings = <<>> /\ html = <<>>

IdleLayout == layout_file = <<>> /\ layout_cache = <<>> /\ page = <<>>

\* ImportResolver.__init__, and the arguments resolve is about to get
InitResolve ==
    /\ files \in FileSystems
    /\ given \in Contents
    /\ current_file \in CurrentFiles
    /\ content = given
    /\ old_content = <<>> /\ depth = 0 /\ passes = 0 /\ import_stack = {}
    /\ pc = "resolve"
    /\ logs = {} /\ raised = FALSE /\ result = <<>>
    /\ IdleCompile /\ IdleLayout /\ IdleRest

\* ImportResolver.resolve up to the loop of _resolve_imports
Resolve ==
    /\ pc = "resolve"
    /\ depth' = 0
    /\ import_stack' = IF current_file # NoValue /\ current_file # <<>>
                       THEN {current_file} ELSE {}
    /\ old_content' = <<>>
    /\ pc' = "resolving"
    /\ UNCHANGED <<files, current_file, given, content, passes, logs, raised,
                   result>>
    /\ UNCHANGED <<compileVars, layoutVars, restVars>>

\* a turn of the loop that does not count itself
ResolvePassUncounted ==
    /\ pc = "resolving"
    /\ old_content # content
    /\ depth + 1 <= MAX_DEPTH
    /\ old_content' = content
    /\ content' = SubFrom(content, 0, import_stack, MaxNesting).text
    /\ logs' = logs \cup SubFrom(content, 0, import_stack, MaxNesting).logs
    /\ passes' = passes + 1
    /\ UNCHANGED <<files, current_file, given, import_stack, result, depth,
                   raised, pc>>
    /\ UNCHANGED <<compileVars, layoutVars, restVars>>

\* _resolve_imports: one turn of the loop under the ceiling, a substitution
\* pass over the whole text
ResolvePass ==
    /\ pc = "resolving"
    /\ old_content # content
    /\ depth + 1 <= MAX_DEPTH
    /\ depth' = depth + 1
    /\ LET s == SubFrom(content, 0, import_stack, MaxNesting)
       IN  /\ logs' = logs \cup s.logs
           /\ IF s.raised
              THEN /\ raised' = TRUE
                   /\ pc' = "resolve_error"
                   /\ UNCHANGED <<content, old_content, passes>>
              ELSE /\ old_content' = content
                   /\ content' = s.text
                   /\ passes' = passes + 1
                   /\ UNCHANGED <<raised, pc>>
    /\ UNCHANGED <<files, current_file, given, import_stack, result>>
    /\ UNCHANGED <<compileVars, layoutVars, restVars>>

\* the turn of the loop that exceeds the ceiling, with nothing logged
ResolveCeilingSilent ==
    /\ pc = "resolving"
    /\ old_content # content
    /\ depth + 1 > MAX_DEPTH
    /\ depth' = depth + 1
    /\ result' = content
    /\ pc' = "resolved"
    /\ UNCHANGED <<files, current_file, given, content, old_content, passes,
                   import_stack, raised, logs>>
    /\ UNCHANGED <<compileVars, layoutVars, restVars>>

\* _resolve_imports: the turn of the loop that exceeds the ceiling
ResolveCeiling ==
    /\ pc = "resolving"
    /\ old_content # content
    /\ depth + 1 > MAX_DEPTH
    /\ depth' = depth + 1
    /\ logs' = logs \cup {LogEntry("too_deep", <<>>)}
    /\ result' = content
    /\ pc' = "resolved"
    /\ UNCHANGED <<files, current_file, given, content, old_content, passes,
                   import_stack, raised>>
    /\ UNCHANGED <<compileVars, layoutVars, restVars>>

\* _resolve_imports: the loop ends on a pass that changed nothing
ResolveReturn ==
    /\ pc = "resolving"
    /\ old_content = content
    /\ result' = content
    /\ pc' = "resolved"
    /\ UNCHANGED <<files, current_file, given, content, old_content, depth,
                   passes, import_stack, logs, raised>>
    /\ UNCHANGED <<compileVars, layoutVars, restVars>>

NextResolve ==
    \/ Resolve
    \/ ResolvePass
    \/ ResolveCeiling
    \/ ResolveReturn

SpecResolve == InitResolve /\ [][NextResolve]_vars

\* a turn of the while loop of _resolve_imports, a pass or the turn that
\* exceeds the ceiling
LoopTurn ==
    /\ pc = "resolving"
    /\ old_content # content
    /\ depth' = depth + 1

\* resolve is a sequential call: once called it runs, each turn of its
\* loop is taken, and it returns when the loop has ended
SpecResolveLive ==
    /\ InitResolve /\ [][NextResolve]_vars
    /\ WF_vars(Resolve) /\ WF_depth(LoopTurn) /\ WF_vars(ResolveReturn)

-----------------------------------------------------------------------------
(* LayoutManager (components/layout_manager.py)                            *)

LAYOUT_FILENAME == <<"_", "l", "a", "y", "o", "u", "t", ".", "p", "y", "p", "x">>
CHILDREN_PLACEHOLDERS == <<<<"{", "{", "c", "h", "i", "l", "d", "r", "e", "n", "}", "}">>,
                           <<"{", "c", "h", "i", "l", "d", "r", "e", "n", "}">>>>

\* a static part a layout may import, and its text
F_layout_part == <<"l", ".", "h", "t", "m", "l">>
T_layout_part == <<"<", "m", "a", "i", "n", ">", "{", "{", "c", "h", "i", "l", "d", "r", "e", "n", "}", "}", "<", "/", "m", "a", "i", "n", ">">>

\* layout sources
L_none == <<"d", "i", "v", "\n", " ", " ", " ", " ", "p">>
L_children_variable == <<"d", "i", "v", "\n", " ", " ", " ", " ", "{", "{", "c", "h", "i", "l", "d", "r", "e", "n", "}", "}">>
L_children_text == <<"d", "i", "v", "\n", " ", " ", " ", " ", "{", "c", "h", "i", "l", "d", "r", "e", "n", "}">>
L_children_twice == <<"{", "c", "h", "i", "l", "d", "r", "e", "n", "}", "\n", "{", "c", "h", "i", "l", "d", "r", "e", "n", "}">>
L_import_part == <<"[", "[", "l", ".", "h", "t", "m", "l", "]", "]">>
L_empty == <<>>

\* page contents
P_text == <<"x">>
P_empty == <<>>
P_element == <<"<", "p", ">", "<", "/", "p", ">">>
P_children_text == <<"{", "c", "h", "i", "l", "d", "r", "e", "n", "}">>
P_children_variable == <<"{", "{", "c", "h", "i", "l", "d", "r", "e", "n", "}", "}">>
P_lines == <<"a", "\n", "b">>
P_nested == <<"<", "d", "i", "v", ">", "x", "<", "/", "d", "i", "v", ">">>
P_variable == <<"{", "{", " ", "y", " ", "}", "}">>

\* what pages/_layout.pypx may be
LayoutFiles ==
    {Absent, Unreadable, PypxFile(T_open_var), PypxFile(L_none),
     PypxFile(L_children_variable), PypxFile(L_children_text),
     PypxFile(L_children_twice), PypxFile(L_import_part), PypxFile(L_empty)}

Pages == {P_text, P_empty, P_element, P_children_text, P_children_variable,
          P_lines, P_nested, P_variable}

\* the component root the layout's imports are read from
LayoutParts == [p \in {FullPath(F_layout_part)} |-> File(T_layout_part)]

\* LayoutManager.has_layout
HasLayout == layout_file # Absent

\* xtracto.Parser(path="_layout.pypx", layout=True): the layout file is read
\* and compiled, and its imports are resolved
LayoutParser ==
    IF ~layout_file.readable THEN ParserRaised
    ELSE IF layout_file.compiled.raised THEN ParserRaised
    ELSE ParserOf(ResolveImports(layout_file.compiled.html, <<>>, 0,
                                 {LAYOUT_FILENAME}, MaxNesting))

\* what get_layout_template leaves when Parser has returned or raised p
LoadedLayout(p) ==
    IF p.raised
    THEN [template |-> NoValue, cache |-> layout_cache,
          logs |-> p.logs \cup {LogEntry("layout_error", LAYOUT_FILENAME)}]
    ELSE [template |-> p.template_string, cache |-> p.template_string,
          logs |-> p.logs]

\* LayoutManager.get_layout_template
GetLayoutTemplate ==
    IF ~HasLayout
    THEN [template |-> NoValue, cache |-> layout_cache, logs |-> {}]
    ELSE IF layout_cache # NoValue
    THEN [template |-> layout_cache, cache |-> layout_cache, logs |-> {}]
    ELSE LoadedLayout(LayoutParser)

\* apply_layout with the try of the placeholders left out: the layout is
\* returned as it is
WrapBlindly(layout_template, c) == [result |-> layout_template, logs |-> {}]

\* apply_layout once the template is there: the first placeholder found in
\* the template is replaced by the content
ApplyTemplate(layout_template, c) ==
    IF layout_template = NoValue THEN [result |-> c, logs |-> {}]
    ELSE IF \E i \in 1..Len(CHILDREN_PLACEHOLDERS) :
                Contains(layout_template, CHILDREN_PLACEHOLDERS[i])
    THEN LET i == CHOOSE i \in 1..Len(CHILDREN_PLACEHOLDERS) :
                 /\ Contains(layout_template, CHILDREN_PLACEHOLDERS[i])
                 /\ \A j \in 1..(i - 1) :
                        ~Contains(layout_template, CHILDREN_PLACEHOLDERS[j])
         IN  [result |-> Replace(layout_template, CHILDREN_PLACEHOLDERS[i], c),
              logs |-> {}]
    ELSE [result |-> c,
          logs |-> {LogEntry("no_children_placeholder", LAYOUT_FILENAME)}]

\* LayoutManager.__init__
InitLayout ==
    /\ layout_file \in LayoutFiles
    /\ layout_cache = NoValue
    /\ page = NoValue
    /\ files = LayoutParts
    /\ current_file = <<>> /\ given = <<>> /\ content = <<>>
    /\ old_content = <<>> /\ depth = 0 /\ passes = 0 /\ import_stack = {}
    /\ pc = "layout"
    /\ logs = {} /\ raised = FALSE /\ result = <<>>
    /\ IdleCompile /\ IdleRest

\* LayoutManager.apply_layout(c)
ApplyLayout ==
    /\ pc \in {"layout", "applied"}
    /\ \E c \in Pages :
           /\ page' = c
           /\ layout_cache' = GetLayoutTemplate.cache
           /\ result' = ApplyTemplate(GetLayoutTemplate.template, c).result
           /\ logs' = GetLayoutTemplate.logs
                          \cup ApplyTemplate(GetLayoutTemplate.template, c).logs
    /\ pc' = "applied"
    /\ UNCHANGED <<layout_file, raised>>
    /\ UNCHANGED <<compileVars, resolveVars, restVars>>

\* LayoutManager.clear_cache
ClearCache ==
    /\ pc \in {"layout", "applied"}
    /\ layout_cache' = NoValue
    /\ UNCHANGED <<layout_file, page, pc, logs, raised, result>>
    /\ UNCHANGED <<compileVars, resolveVars, restVars>>

NextLayout ==
    \/ ApplyLayout
    \/ ClearCache

SpecLayout == InitLayout /\ [][NextLayout]_vars

-----------------------------------------------------------------------------
(* Properties of the compilation run                                       *)

\* the lines (0 for the Document) of the parents of the nodes of line i,
\* among nodes and below them; parent is the line of the parent of nodes
RECURSIVE ParentLines(_, _, _)
ParentLines(nodes, parent, i) ==
    UNION {(IF nodes[k].line = i THEN {parent} ELSE {}) \cup
           (IF nodes[k].type = "Element"
            THEN ParentLines(nodes[k].attributes \o nodes[k].children,
                             nodes[k].line, i)
            ELSE {}) : k \in 1..Len(nodes)}

\* the widths of the leading spaces of the lines of a source
Indents(src) ==
    [i \in 1..Len(SplitLines(src)) |-> LeadingSpaces(SplitLines(src)[i])]

\* indented in consistent steps: the first line is not indented and a line
\* is at most one step deeper than the line before it
ConsistentSteps(ws) ==
    /\ ws[1] = 0
    /\ \A i \in 2..Len(ws) : ws[i] <= ws[i - 1] + IndentUnit

\* the nearest preceding line of strictly smaller indentation, 0 if none
NearestShallower(ws, i) ==
    IF \E j \in 1..(i - 1) : ws[j] < ws[i]
    THEN MaxOf({j \in 1..(i - 1) : ws[j] < ws[i]})
    ELSE 0

\* C1: once a source of bare tags indented in consistent steps is parsed,
\* the node of every line is a child of the element of the nearest preceding
\* line of strictly smaller indentation, or of the Document when there is
\* none.  The parser does not do this: a line that returns to an earlier
\* sibling's indentation after a nested block goes to the Document.
C1_ParentIsNearestShallowerLine ==
    (/\ pc = "done"
     /\ raw_source \in TreeSources
     /\ ConsistentSteps(Indents(raw_source)))
    => \A i \in 1..Len(Indents(raw_source)) :
           ParentLines(document.children, 0, i)
               = {NearestShallower(Indents(raw_source), i)}

\* the source of the tag p with one child line, body, one step deeper
ChildLine(body) == JoinLines(<<B_tag, Spaces(IndentUnit) \o body>>)

\* C2: every node of an indented child line of several tokens is attached
\* to the enclosing element, in order, so that p over "Value: {{my_var}}"
\* yields the text and the variable expression inside <p>...</p>.  The
\* parser attaches only the first node; the others go to the Document.
C2_ChildLineNodesStayInElement ==
    (pc = "done" /\ raw_source = ChildLine(B_text_var))
        => /\ ParentLines(document.children, 0, 2) = {1}
           /\ html = <<"<", "p", ">">> \o
                     <<"V", "a", "l", "u", "e", ":", " ">> \o
                     ToJinja(Variable(<<"m", "y", "_", "v", "a", "r">>,
                                      NoValue, 2, 12)) \o
                     <<"<", "/", "p", ">">>

\* C3: an IDENTIFIER token is emitted only for a word that matches, without
\* regard to case, a known HTML element name, and the line "Hello World" is
\* one TEXT token.  The tokenizer emits IDENTIFIER for every word of the
\* shape of a name.
C3_IdentifierOnlyForKnownElements ==
    /\ \A k \in 1..Len(tk_tokens) :
           tk_tokens[k].type = "IDENTIFIER"
               => Lower(tk_tokens[k].value) \in HTML_ELEMENTS
    /\ (raw_source = B_words /\ pc # "tokenize")
           => /\ Len(tk_tokens) = 2
              /\ tk_tokens[1].type = "TEXT"
              /\ tk_tokens[1].value = B_words

\* C4: the text generated for a source that is one template block is the
\* block as written, markers and inner text with its whitespace, and a
\* newline.  The tokenizer and the lexer drop the spaces between the words.
C4_TemplateBlockPassesThrough ==
    (pc = "done" /\ raw_source = B_jinja) => html = B_jinja \o <<"\n">>

\* the bodies that open a delimiter construct and never close it
OpenBodies ==
    {B_open_comment, B_open_attr, B_open_var, B_open_import, B_open_jinja,
     B_open_jinja_comment}

\* C5: when the opening delimiter of a construct is never closed, the run
\* of the lexer ends in a LexerError at the line and column of the opening
\* delimiter.  An unclosed comment raises nothing.
C5_UnclosedConstructRaisesAtOpening ==
    pc \notin {"tokenize", "lex"} =>
        \A body \in OpenBodies :
            /\ raw_source = body
                   => /\ lx_error.kind = "LexerError"
                      /\ lx_error.line = 1 /\ lx_error.column = 1
            /\ raw_source = ChildLine(body)
                   => /\ lx_error.kind = "LexerError"
                      /\ lx_error.line = 2
                      /\ lx_error.column = IndentUnit + 1

-----------------------------------------------------------------------------
(* Properties of ImportResolver.resolve                                    *)

TooDeep == LogEntry("too_deep", <<>>)

HasText(f, text) ==
    FullPath(f) \in DOMAIN files /\ files[FullPath(f)].text = text

\* the given text imports f, alone or between other text
Imports(f) == given \in {Placeholder(f), Around(f)}

\* a imports b and b imports a, as static files or as .pypx components
StaticCycle ==
    HasText(F_a_html, T_import_b_html) /\ HasText(F_b_html, T_import_a_html)
PypxCycle ==
    HasText(F_a_pypx, T_import_b_pypx) /\ HasText(F_b_pypx, T_import_a_pypx)

YieldsNothing(f) ==
    \/ ~InsideRoot(FullPath(f))
    \/ FullPath(f) \notin DOMAIN files
    \/ ~files[FullPath(f)].readable
    \/ files[FullPath(f)].text = <<>>
    \/ /\ FileType(f) = <<"p", "y", "p", "x">>
       /\ files[FullPath(f)].compiled.raised

-----------------------------------------------------------------------------
(* Properties of LayoutManager.apply_layout                                *)

\* the template has none of the children placeholders
LacksPlaceholder(template) ==
    \A i \in 1..Len(CHILDREN_PLACEHOLDERS) :
        ~Contains(template, CHILDREN_PLACEHOLDERS[i])

NoChildrenWarning == LogEntry("no_children_placeholder", LAYOUT_FILENAME)

\* there is no layout file, or it cannot be read, or it does not compile
Unavailable ==
    IF layout_file = Absent THEN TRUE
    ELSE IF ~layout_file.readable THEN TRUE
    ELSE layout_file.compiled.raised

NamesChildrenVariable ==
    IF layout_file = Absent THEN FALSE
    ELSE /\ layout_file.readable
         /\ Contains(layout_file.text, CHILDREN_PLACEHOLDERS[1])
         /\ "compiled" \in DOMAIN layout_file
         /\ ~layout_file.compiled.raised

\* the text has the page content with text before it and text after it
WrapsPage(text) ==
    \E i \in 1..(Len(text) - Len(page) - 1) : OccursAt(text, page, i)

ReferencesPlaceholder(text) ==
    \E i \in 1..Len(CHILDREN_PLACEHOLDERS) :
        Contains(text, CHILDREN_PLACEHOLDERS[i])

\* the last apply_layout composed the page into the layout
Composed ==
    /\ pc = "applied"
    /\ ~Unavailable
    /\ result # page

-----------------------------------------------------------------------------
(* TemplateCache (core/cache.py)                                           *)

\* the contents a template file goes through, oldest first
D_first == <<"p">>
D_second == <<"d", "i", "v">>
D_third == <<"b", "r">>
Versions == <<D_first, D_second, D_third>>

\* TemplateCache.content_hash: the MD5 hex digest of the content
ContentHash(c) ==
    IF c = D_first THEN "83878c91171338902e0fe0fb97a8c47a"
    ELSE IF c = D_second THEN "38696558dc98494c08d951c052900a2a"
    ELSE IF c = D_third THEN "dc634e2072827fe0b5be9a2063390544"
    ELSE "d41d8cd98f00b204e9800998ecf8427e"

\* the paths templates are cached under
CachePaths == {F_page, F_a_pypx}

\* the calls of set_template and clear a run makes at most
MaxCalls == 3

\* TemplateCache.enabled
Enabled == production

\* an entry of _template_cache: the tuple (content_hash, parsed)
CacheEntry(content_hash, parsed) == [hash |-> content_hash, template |-> parsed]

\* TemplateCache.get_template
GetTemplate(p, content_hash) ==
    IF ~Enabled THEN NoValue
    ELSE IF p \notin DOMAIN template_cache THEN NoValue
    ELSE IF template_cache[p].hash # content_hash THEN NoValue
    ELSE template_cache[p].template

\* set_template that stores even with caching disabled
SetTemplateAlways(p, content_hash, parsed) ==
    [q \in DOMAIN template_cache \cup {p} |->
        IF q = p THEN CacheEntry(content_hash, parsed) ELSE template_cache[q]]

\* TemplateCache.set_template: the _template_cache it leaves
SetTemplate(p, content_hash, parsed) ==
    IF ~Enabled THEN template_cache
    ELSE [q \in DOMAIN template_cache \cup {p} |->
             IF q = p THEN CacheEntry(content_hash, parsed)
             ELSE template_cache[q]]

\* the record of a call
SetCall(p, content_hash, parsed) ==
    [op |-> "set", path |-> p, hash |-> content_hash, template |-> parsed]
ClearCall == [op |-> "clear"]

\* parse_pypx(content) of the usage: the compiled text of the content
ParsePypx(c) == CompilePypx(c).html

\* the resolver before anything used it
IdleResolve ==
    /\ files = <<>> /\ current_file = <<>> /\ given = <<>> /\ content = <<>>
    /\ old_content = <<>> /\ depth = 0 /\ passes = 0 /\ import_stack = {}

\* the writers that share the cache, and the path they all compile
Writers == {1, 2}
SharedPath == F_page

WriterIdle == [at |-> "idle", hash |-> "", template |-> <<>>]

\* the position of a content in the history of the file
VersionOf(content_hash) ==
    CHOOSE i \in 1..Len(Versions) : ContentHash(Versions[i]) = content_hash

\* the set_template calls made and those writers are about to make
CallsBudgeted ==
    Len(calls) + Cardinality({w \in Writers : writer[w].at = "compiled"})

\* the shared TemplateCache of a production build, and two writers
InitWriters ==
    /\ production = TRUE
    /\ template_cache = <<>>
    /\ calls = <<>> /\ got = <<>>
    /\ disk = [p \in {SharedPath} |-> D_first]
    /\ writer = [w \in Writers |-> WriterIdle]
    /\ pc = "cache"
    /\ logs = {} /\ raised = FALSE /\ result = <<>>
    /\ IdleCompile /\ IdleResolve /\ IdleLayout /\ IdleRender /\ IdleFile

\* the template file is edited: its content becomes the next version
EditFile ==
    /\ pc = "cache"
    /\ \E i \in 1..(Len(Versions) - 1) :
           /\ disk[SharedPath] = Versions[i]
           /\ disk' = [disk EXCEPT ![SharedPath] = Versions[i + 1]]
    /\ UNCHANGED <<production, template_cache, calls, got, writer>>
    /\ UNCHANGED <<pc, logs, raised, result>>
    /\ UNCHANGED <<compileVars, resolveVars, layoutVars, renderVars, fileVars>>

\* a writer, as in the usage of TemplateCache: it hashes the content it
\* read, finds no cached template for that hash, and parses the content
WriterCompile(w) ==
    /\ pc = "cache"
    /\ writer[w].at = "idle"
    /\ CallsBudgeted < MaxCalls
    /\ GetTemplate(SharedPath, ContentHash(disk[SharedPath])) = NoValue
    /\ writer' = [writer EXCEPT ![w] =
                     [at |-> "compiled",
                      hash |-> ContentHash(disk[SharedPath]),
                      template |-> ParsePypx(disk[SharedPath])]]
    /\ UNCHANGED <<production, template_cache, calls, got, disk>>
    /\ UNCHANGED <<pc, logs, raised, result>>
    /\ UNCHANGED <<compileVars, resolveVars, layoutVars, renderVars, fileVars>>

\* the writer's cache.set_template(path, content_hash, parsed)
WriterStore(w) ==
    /\ pc = "cache"
    /\ writer[w].at = "compiled"
    /\ template_cache' =
           SetTemplate(SharedPath, writer[w].hash, writer[w].template)
    /\ calls' = Append(calls, SetCall(SharedPath, writer[w].hash,
                                      writer[w].template))
    /\ writer' = [writer EXCEPT ![w] = WriterIdle]
    /\ UNCHANGED <<production, got, disk>>
    /\ UNCHANGED <<pc, logs, raised, result>>
    /\ UNCHANGED <<compileVars, resolveVars, layoutVars, renderVars, fileVars>>

NextWriters ==
    \/ EditFile
    \/ \E w \in Writers : WriterCompile(w)
    \/ \E w \in Writers : WriterStore(w)

SpecWriters == InitWriters /\ [][NextWriters]_vars

\* C13: with two writers storing compiled templates for the same path,
\* a write compiled from older content never replaces the entry of a newer
\* compile: the entry of the path is never older than a template that was
\* stored for it.
C13_StaleWriteNeverOverwrites ==
    \A i \in 1..Len(calls) :
        (calls[i].op = "set" /\ calls[i].path \in DOMAIN template_cache)
            => VersionOf(template_cache[calls[i].path].hash)
                   >= VersionOf(calls[i].hash)

\* the arguments the calls are made with
CacheHashes == {ContentHash(D_first), ContentHash(D_second)}
CacheTemplates == {ParsePypx(D_first), ParsePypx(D_second)}

\* one TemplateCache, with caching enabled or not, and a caller
InitCache ==
    /\ production \in BOOLEAN
    /\ template_cache = <<>>
    /\ calls = <<>> /\ got = <<>>
    /\ disk = <<>> /\ writer = <<>>
    /\ pc = "cache"
    /\ logs = {} /\ raised = FALSE /\ result = <<>>
    /\ IdleCompile /\ IdleResolve /\ IdleLayout /\ IdleRender /\ IdleFile

\* cache.set_template(p, h, t)
CallSetTemplate ==
    /\ pc = "cache"
    /\ Len(calls) < MaxCalls
    /\ \E p \in CachePaths, h \in CacheHashes, t \in CacheTemplates :
           /\ template_cache' = SetTemplate(p, h, t)
           /\ calls' = Append(calls, SetCall(p, h, t))
    /\ UNCHANGED <<production, got, disk, writer>>
    /\ UNCHANGED <<pc, logs, raised, result>>
    /\ UNCHANGED <<compileVars, resolveVars, layoutVars, renderVars, fileVars>>

\* cache.get_template(p, h)
CallGetTemplate ==
    /\ pc = "cache"
    /\ \E p \in CachePaths, h \in CacheHashes :
           got' = [path |-> p, hash |-> h, value |-> GetTemplate(p, h),
                   at |-> Len(calls)]
    /\ UNCHANGED <<production, template_cache, calls, disk, writer>>
    /\ UNCHANGED <<pc, logs, raised, result>>
    /\ UNCHANGED <<compileVars, resolveVars, layoutVars, renderVars, fileVars>>

\* cache.clear(): the template entries are dropped
CallClear ==
    /\ pc = "cache"
    /\ Len(calls) < MaxCalls
    /\ template_cache' = <<>>
    /\ calls' = Append(calls, ClearCall)
    /\ UNCHANGED <<production, got, disk, writer>>
    /\ UNCHANGED <<pc, logs, raised, result>>
    /\ UNCHANGED <<compileVars, resolveVars, layoutVars, renderVars, fileVars>>

NextCache ==
    \/ CallSetTemplate
    \/ CallGetTemplate
    \/ CallClear

SpecCache == InitCache /\ [][NextCache]_vars

\* the call among the first i of cs that stored last for path p, or the
\* clear after which nothing was stored for p
RECURSIVE LastStored(_, _, _)
LastStored(cs, p, i) ==
    IF i = 0 THEN ClearCall
    ELSE IF cs[i].op = "clear" THEN ClearCall
    ELSE IF cs[i].path = p THEN cs[i]
    ELSE LastStored(cs, p, i - 1)

\* what a get_template with hash h is to return when e was stored last
Answer(e, h) ==
    IF e.op = "clear" THEN NoValue
    ELSE IF e.hash = h THEN e.template
    ELSE NoValue

\* C14: with caching enabled, get_template(path, h) returns the template
\* of the entry stored last for the path and not cleared since when that
\* entry's hash is h, and None otherwise.  With caching disabled it returns
\* None and set_template stores nothing.
C14_GetReturnsLastStoredForHash ==
    /\ ~production => template_cache = <<>>
    /\ got # <<>> =>
           got.value = IF production
                       THEN Answer(LastStored(calls, got.path, got.at), got.hash)
                       ELSE NoValue

\* C14 witness: a template was returned for a path that had been stored
\* under another hash before, and was stored again since
C14_HitAfterRestore ==
    /\ production
    /\ got # <<>>
    /\ got.value # NoValue
    /\ got.at = 2
    /\ calls[1].op = "set" /\ calls[1].path = got.path
    /\ calls[1].hash # got.hash
    /\ calls[1].template # got.value

-----------------------------------------------------------------------------
(* JinjaRenderer (rendering/jinja_renderer.py)                             *)

\* templates handed to render
R_text == <<"x">>
R_variable == <<"{", "{", " ", "y", " ", "}", "}">>
R_element == <<"<", "p", ">", "{", "{", " ", "y", " ", "}", "}", "<", "/", "p", ">">>
R_twice == <<"{", "{", " ", "y", " ", "}", "}", "{", "{", " ", "y", " ", "}", "}">>
R_open_variable == <<"{", "{", " ", "y">>
R_open_block == <<"{", "%", " ", "i", "f">>
RenderTemplates ==
    {T_empty, R_text, R_variable, R_element, R_twice, R_open_variable,
     R_open_block}

\* the context argument: None, {} or {"y": "v"}
NoContext == [given |-> FALSE, y |-> <<>>]
EmptyContext == [given |-> TRUE, y |-> <<>>]
YContext == [given |-> TRUE, y |-> <<"v">>]
RenderContexts == {NoContext, EmptyContext, YContext}

\* where the environment raises whatever the template is
JinjaFailures == {"none", "from_string", "render"}

\* a Jinja2 delimiter is opened at position i and not closed after it
OpenAt(t, i, open, close) ==
    /\ OccursAt(t, open, i)
    /\ ~\E j \in (i + 2)..Len(t) : OccursAt(t, close, j)

\* Environment.from_string raises TemplateSyntaxError
SyntaxFails(t) ==
    \E i \in 0..Len(t) :
        \/ OpenAt(t, i, <<"{", "{">>, <<"}", "}">>)
        \/ OpenAt(t, i, <<"{", "%">>, <<"%", "}">>)

\* Template.render: the variable y replaced by its value in the context,
\* by nothing when the context does not have it
RenderText(t, ctx) == Replace(t, R_variable, ctx.y)

\* self.env.from_string(template_string) and template.render(**context)
JinjaRun(t, ctx) ==
    IF jinja_raises = "from_string" \/ SyntaxFails(t)
    THEN [raised |-> TRUE, text |-> <<>>]
    ELSE IF jinja_raises = "render"
    THEN [raised |-> TRUE, text |-> <<>>]
    ELSE [raised |-> FALSE, text |-> RenderText(t, ctx)]

RenderError == LogEntry("render_error", <<>>)

\* render without the except clause
RenderUncaught(t, r) ==
    [result |-> IF r.raised THEN <<>> ELSE r.text, logs |-> {},
     raised |-> r.raised]

\* JinjaRenderer.render: what the try statement leaves when the Jinja2
\* calls ended as r
RenderOutcome(t, r) ==
    IF r.raised
    THEN [result |-> t, logs |-> {RenderError}, raised |-> FALSE]
    ELSE [result |-> r.text, logs |-> {}, raised |-> FALSE]

\* JinjaRenderer.__init__, and the arguments render is about to get
InitRender ==
    /\ template_string \in RenderTemplates
    /\ context \in RenderContexts
    /\ jinja_raises \in JinjaFailures
    /\ pc = "render"
    /\ logs = {} /\ raised = FALSE /\ result = <<>>
    /\ IdleCompile /\ IdleResolve /\ IdleLayout /\ IdleCache /\ IdleFile

\* JinjaRenderer.render(template_string, context)
Render ==
    /\ pc = "render"
    /\ result' = RenderOutcome(template_string,
                               JinjaRun(template_string, context)).result
    /\ logs' = logs \cup RenderOutcome(template_string,
                                       JinjaRun(template_string, context)).logs
    /\ raised' = RenderOutcome(template_string,
                               JinjaRun(template_string, context)).raised
    /\ pc' = "rendered"
    /\ UNCHANGED <<template_string, context, jinja_raises>>
    /\ UNCHANGED <<compileVars, resolveVars, layoutVars, cacheVars, fileVars>>

NextRender == Render

SpecRender == InitRender /\ [][NextRender]_vars

\* the Jinja2 calls of this render fail
JinjaFails == jinja_raises # "none" \/ SyntaxFails(template_string)

\* C15: render lets no exception out.  When from_string or the template's
\* render fails, the error is logged and the template string comes back as
\* it was given; otherwise the rendered text comes back.
C15_RenderFallsBackToTemplate ==
    /\ ~raised
    /\ pc = "rendered" =>
           IF JinjaFails
           THEN result = template_string /\ RenderError \in logs
           ELSE result = RenderText(template_string, context) /\ logs = {}

\* C15 witness: a template with an unclosed variable was handed back
C15_BrokenTemplateReturned ==
    /\ pc = "rendered"
    /\ template_string = R_open_variable
    /\ jinja_raises = "none"
    /\ result = R_open_variable
    /\ RenderError \in logs
    /\ ~raised

-----------------------------------------------------------------------------
(* FileManager.get_file_if_valid called on its own                         *)

\* relative paths that lead out of the component root /w/c
G_up_down == <<"a", "/", ".", ".", "/", ".", ".", "/", "s", ".", "h", "t", "m", "l">>
G_far == <<".", ".", "/", ".", ".", "/", "w", "/", "s", ".", "h", "t", "m", "l">>
G_sibling == <<".", ".", "/", "c", "c", "/", "a", ".", "h", "t", "m", "l">>
G_parent == <<".", ".">>
G_dot_up == <<".", "/", ".", ".", "/", "s", ".", "h", "t", "m", "l">>
OutsidePaths == {F_outside, G_up_down, G_far, G_sibling, G_parent, G_dot_up}

\* relative paths that stay in it, or come back into it
G_back_in == <<".", ".", "/", "c", "/", "a", ".", "h", "t", "m", "l">>
G_sub_up == <<"d", "/", ".", ".", "/", "a", ".", "h", "t", "m", "l">>
G_dot == <<".", "/", "a", ".", "h", "t", "m", "l">>
InsidePaths == {F_a_html, F_b_html, F_missing, G_back_in, G_sub_up, G_dot}

\* the files open() is called on by get_file_if_valid(path)
OpenedBy(p) ==
    IF ~InsideRoot(FullPath(p)) THEN {}
    ELSE IF ~(Exists(FullPath(p)) \/ IsDirectory(FullPath(p))) THEN {}
    ELSE {FullPath(p)}

\* a root of static files, with a file beside the root
InitFile ==
    /\ files \in {FileSystem(a, b, Absent, Absent) : a \in StaticA, b \in StaticB}
    /\ fm_path \in OutsidePaths \cup InsidePaths
    /\ fm_opened = {}
    /\ pc = "get_file"
    /\ current_file = <<>> /\ given = <<>> /\ content = <<>>
    /\ old_content = <<>> /\ depth = 0 /\ passes = 0 /\ import_stack = {}
    /\ logs = {} /\ raised = FALSE /\ result = <<>>
    /\ IdleCompile /\ IdleLayout /\ IdleCache /\ IdleRender

\* FileManager.get_file_if_valid(fm_path)
GetFile ==
    /\ pc = "get_file"
    /\ result' = GetFileIfValid(fm_path, MaxNesting).value
    /\ logs' = logs \cup GetFileIfValid(fm_path, MaxNesting).logs
    /\ raised' = GetFileIfValid(fm_path, MaxNesting).raised
    /\ fm_opened' = fm_opened \cup OpenedBy(fm_path)
    /\ pc' = "got_file"
    /\ UNCHANGED <<fm_path, layoutVars, cacheVars, renderVars>>
    /\ UNCHANGED <<compileVars, resolveVars>>

NextFile == GetFile

SpecFile == InitFile /\ [][NextFile]_vars

\* C16: for a relative path that leads out of the component root,
\* get_file_if_valid opens no file, logs the critical diagnostic of the
\* blocked traversal, returns the empty string and raises nothing.
C16_OutsideRootOpensNothing ==
    (pc = "got_file" /\ fm_path \in OutsidePaths)
        => /\ fm_opened = {}
           /\ result = <<>>
           /\ LogEntry("path_traversal", fm_path) \in logs
           /\ ~raised

\* C16 witness: the file beside the root exists and is readable, and the
\* call that named it through the parent directory came back empty
C16_FileBesideRootNotRead ==
    /\ pc = "got_file"
    /\ fm_path = G_up_down
    /\ <<<<"w">>, <<"s", ".", "h", "t", "m", "l">>>> \in DOMAIN files
    /\ Readable(FullPath(fm_path))
    /\ files[FullPath(fm_path)].text = T_secret
    /\ result = <<>> /\ fm_opened = {}

-----------------------------------------------------------------------------
(* Properties of the stages of the pipeline                                *)

\* the tokens are closed by EOF and have no EOF before it
EndsWithOneEOF(tokens) ==
    /\ tokens # <<>>
    /\ tokens[Len(tokens)].type = "EOF"
    /\ \A i \in 1..(Len(tokens) - 1) : tokens[i].type # "EOF"

\* the turn of the loop of tokenize at pos moves on in the source and
\* stays within it
TurnAdvances ==
    LET r == ScanToken(source, tk_pos, tk_line, tk_column)
    IN  r.pos > tk_pos /\ r.pos <= Len(source)

\* C17: tokenize ends for every source and raises nothing: while
\* characters are left every turn of its loop moves on in the source (so
\* the characters left get fewer with every turn), the loop goes on until
\* the end of the source, and when it is left every character of the
\* source has been consumed and the token list ends with its only EOF
\* token.
C17_TokenizeEndsWithOneEOF ==
    /\ [](pc = "tokenize" => ~raised /\ tk_pos <= Len(source))
    /\ [](pc = "tokenize" /\ tk_pos < Len(source) => TurnAdvances)
    /\ [][pc = "tokenize" /\ pc' = "tokenize" => tk_pos' > tk_pos]_vars
    /\ [][pc = "tokenize" /\ pc' # "tokenize" =>
            tk_pos = Len(source) /\ ~raised']_vars
    /\ [](pc # "tokenize" => tk_pos = Len(source) /\ EndsWithOneEOF(tk_tokens))

\* C17 witness: a source with an unclosed variable and a stray closing
\* delimiter on two lines was tokenized to its end
C17_MalformedSourceTokenized ==
    /\ pc = "lex"
    /\ raw_source = JoinLines(<<B_open_var, B_stray_end>>)
    /\ tk_pos = Len(source)
    /\ EndsWithOneEOF(tk_tokens)
    /\ Len(tk_tokens) > 3

-----------------------------------------------------------------------------
(* PypxParser.parse over token sequences of any kind                       *)

T_identifier == Token("IDENTIFIER", <<"p">>, 1, 1)
T_text == Token("TEXT", <<"x">>, 1, 1)
T_var_end == Token("VAR_END", <<"}", "}">>, 1, 1)
T_import_end == Token("IMPORT_END", <<"]", "]">>, 1, 1)
T_indent == Token("INDENT", Spaces(IndentUnit), 1, 1)
T_dedent == Token("DEDENT", <<>>, 1, 1)
T_newline == Token("NEWLINE", <<"\n">>, 1, 1)
T_eof == Token("EOF", <<>>, 1, 1)

ParseAlphabet ==
    {T_identifier, T_text, T_var_end, T_import_end, T_indent, T_dedent,
     T_newline}

\* the token t, n times
Run(t, n) == [i \in 1..n |-> t]

\* an element followed by n lines of nothing but indentation
BlankLines(n) ==
    <<T_identifier>> \o
    [i \in 1..(2 * n) |-> IF i % 2 = 1 THEN T_newline ELSE T_indent]

\* the token sequences given to the parser: every sequence of up to three
\* tokens, runs of INDENT before a stray token and elements followed by
\* lines of indentation, each with and without the closing EOF
ParseInputs ==
    LET short == UNION {[1..n -> ParseAlphabet] : n \in 0..3}
        runs == {Run(T_indent, n) \o <<T_var_end>> : n \in 1..(MaxFrames + 1)}
        blank == {BlankLines(n) : n \in 1..(MaxFrames + 1)}
        open == short \cup runs \cup blank
    IN  open \cup {Append(s, T_eof) : s \in open}

\* PypxParser.__init__ with the tokens given
InitParse ==
    /\ lx_output \in ParseInputs
    /\ pc = "parse"
    /\ raw_source = <<>> /\ source = <<>>
    /\ tk_pos = 0 /\ tk_line = 1 /\ tk_column = 1 /\ tk_tokens = <<>>
    /\ lx_pos = 0 /\ indent_stack = <<0>>
    /\ lx_error = NoError
    /\ document = Document(<<>>) /\ warnings = <<>> /\ html = <<>>
    /\ logs = {} /\ raised = FALSE
    /\ Idle

NextParse == Parse

SpecParse == InitParse /\ [][NextParse]_vars

\* the token types _parse_node and _parse_element_content consume
HandledTypes ==
    {"NEWLINE", "INDENT", "DEDENT", "IDENTIFIER", "VAR_CONTENT",
     "IMPORT_CONTENT", "JINJA_BLOCK", "ATTR_CONTENT", "TEXT", "EOF"}

\* the types of the tokens of a sequence that the parser does not handle
RECURSIVE UnhandledIn(_)
UnhandledIn(tokens) ==
    IF tokens = <<>> THEN <<>>
    ELSE IF Head(tokens).type \in HandledTypes THEN UnhandledIn(Tail(tokens))
    ELSE <<Head(tokens).type>> \o UnhandledIn(Tail(tokens))

\* C18: parse returns a Document for every token sequence and raises
\* nothing, and it has logged one warning for every token of a type it does
\* not handle, in their order.
C18_ParseSkipsUnhandledTokens ==
    pc # "parse" =>
        /\ ~raised
        /\ pc = "generate"
        /\ warnings = UnhandledIn(lx_output)

\* the part of C18 that holds: a parse that returns has warned of every
\* unhandled token
ParseWarnsWhenItReturns ==
    pc = "generate" => ~raised /\ warnings = UnhandledIn(lx_output)

-----------------------------------------------------------------------------
(* The compilation of a bare element name                                  *)

\* the known element names that are not void
NonVoidElements == HTML_ELEMENTS \ VOID_ELEMENTS

\* the pipeline constructed on a source that is one such name
InitElements ==
    /\ raw_source \in NonVoidElements
    /\ source = NormalizeTabs(raw_source)
    /\ pc = "tokenize"
    /\ tk_pos = 0 /\ tk_line = 1 /\ tk_column = 1 /\ tk_tokens = <<>>
    /\ lx_pos = 0 /\ lx_output = <<>> /\ indent_stack = <<0>>
    /\ lx_error = NoError
    /\ document = Document(<<>>) /\ warnings = <<>> /\ html = <<>>
    /\ logs = {} /\ raised = FALSE
    /\ Idle

SpecElements == InitElements /\ [][Next]_vars

\* <t></t>
EmptyElement(t) == <<"<">> \o t \o <<">", "<", "/">> \o t \o <<">">>

\* C19: the source that is one non-void known element name t alone
\* compiles to exactly <t></t>.
C19_BareTagCompilesToEmptyElement ==
    (pc = "done" /\ raw_source \in NonVoidElements) =>
        html = EmptyElement(raw_source)

\* the names of C19 for which it holds: those the generator closes and
\* that are one word
ClosedOneWordNames ==
    {t \in NonVoidElements \cap ELEMENTS_WITH_CLOSING_TAG : IsValidElementName(t)}

\* each of the other names ends as text followed by a newline, or as an
\* element named by its first word
BareTagOutcomes ==
    (pc = "done" /\ raw_source \in NonVoidElements) =>
        /\ raw_source \in ClosedOneWordNames => html = EmptyElement(raw_source)
        /\ raw_source \notin ELEMENTS_WITH_CLOSING_TAG =>
               html = raw_source \o <<"\n">>
        /\ ~IsValidElementName(raw_source) => html # EmptyElement(raw_source)

-----------------------------------------------------------------------------
(* The generator's emission for a Variable node                            *)

VarChars == {"a", "b", "'"}

\* the texts of up to two characters
ShortTexts == UNION {[1..n -> VarChars] : n \in 0..2}

\* a name that is itself a filtered expression: a | default('b')
N_filtered ==
    <<"a", " ", "|", " ", "d", "e", "f", "a", "u", "l", "t", "(", "'", "b",
      "'", ")">>

VariableNames == (ShortTexts \ {<<>>}) \cup {N_filtered}
VariableDefaults == ShortTexts \cup {NoValue}

\* the generator constructed on a Document of one Variable
InitVariable ==
    /\ \E name \in VariableNames, default_value \in VariableDefaults :
           document = Document(<<Variable(name, default_value, 1, 1)>>)
    /\ pc = "generate"
    /\ raw_source = <<>> /\ source = <<>>
    /\ tk_pos = 0 /\ tk_line = 1 /\ tk_column = 1 /\ tk_tokens = <<>>
    /\ lx_pos = 0 /\ lx_output = <<>> /\ indent_stack = <<0>>
    /\ lx_error = NoError
    /\ warnings = <<>> /\ html = <<>>
    /\ logs = {} /\ raised = FALSE
    /\ Idle

NextVariable == GenerateHtml

SpecVariable == InitVariable /\ [][NextVariable]_vars

\* the number of quote characters of a text
RECURSIVE Quotes(_)
Quotes(text) ==
    IF text = <<>> THEN 0
    ELSE (IF Head(text) = "'" THEN 1 ELSE 0) + Quotes(Tail(text))

\* every string literal of the expression is closed: without escapes a
\* quote opens or closes one, so their number is even
LiteralsClosed(expression) == Quotes(expression) % 2 = 0

\* no other (name, default_value) pair has the same emission
OnlyPairOf(expression, node) ==
    \A name \in VariableNames, default_value \in VariableDefaults :
        ToJinja(Variable(name, default_value, 1, 1)) = expression
            => name = node.name /\ default_value = node.default_value

\* C20: the expression emitted for Variable(name, default_value) is well
\* formed when the name is, and no other pair of a name and a default
\* gives the same expression, defaults with the quote character included.
C20_VariableEmissionIsLossless ==
    pc = "done" =>
        LET node == document.children[1]
        IN  /\ LiteralsClosed(node.name) => LiteralsClosed(html)
            /\ OnlyPairOf(html, node)

-----------------------------------------------------------------------------
(* Properties of the Lexer's indent stack                                  *)

\* the number of DEDENT tokens of a token list
Dedents(tokens) ==
    Cardinality({i \in 1..Len(tokens) : tokens[i].type = "DEDENT"})

\* the entries a step took off the stack
Popped(before, after) ==
    IF Len(after) < Len(before) THEN Len(before) - Len(after) ELSE 0

\* Lexer.process has returned
LexReturned == pc \in {"parse", "parse_error", "generate", "done"}

\* C21: the indent stack is balanced: every step of the lexer emits as
\* many DEDENT tokens as it pops entries, a step pushes at most one entry,
\* and when process returns the stack is back at its base [0]; so the
\* DEDENT tokens of the output are as many as the pushes.
C21_EveryPushHasItsDedent ==
    /\ [][/\ Dedents(lx_output') - Dedents(lx_output)
                 = Popped(indent_stack, indent_stack')
          /\ Len(indent_stack') <= Len(indent_stack) + 1]_vars
    /\ [](LexReturned => indent_stack = <<0>>)

\* C21 witness: process returned after two pushes, one popped by a
\* shallower line and one at the end of the stream
C21_PoppedInStreamAndAtEnd ==
    /\ pc = "parse"
    /\ raw_source = JoinLines(<<B_tag, Spaces(IndentUnit) \o B_tag,
                                Spaces(2 * IndentUnit) \o B_tag,
                                Spaces(IndentUnit) \o B_tag>>)
    /\ Dedents(lx_output) = 2

\* the lexer stands at an INDENT token that is not inside a construct
AtIndent ==
    /\ pc = "lex"
    /\ ~LexAtEnd(tk_tokens, lx_pos)
    /\ tk_tokens[lx_pos + 1].type = "INDENT"

\* the synthetic DEDENT at the position of the token after the INDENT
DedentAtNext ==
    LET next == tk_tokens[lx_pos + 2]
    IN  Token("DEDENT", <<>>, next.line, next.column)

\* what the step at an INDENT of width W with stack top T does
IndentNormalized ==
    LET token == tk_tokens[lx_pos + 1]
        W == Len(token.value)
        T == indent_stack[Len(indent_stack)]
        kept == SelectSeq(indent_stack, LAMBDA e : e = 0 \/ e <= W)
        emitted == SubSeq(lx_output', Len(lx_output) + 1, Len(lx_output'))
        dedents == Len(indent_stack) - Len(kept)
    IN  /\ lx_pos' = lx_pos + 1
        /\ W > T => /\ indent_stack' = Append(indent_stack, W)
                    /\ emitted = <<token>>
        /\ W = T => /\ indent_stack' = indent_stack
                    /\ emitted = <<token>>
        /\ W < T => /\ indent_stack' = kept
                    /\ dedents >= 1
                    /\ emitted = [i \in 1..dedents |-> DedentAtNext]
                                   \o (IF W > 0 THEN <<token>> ELSE <<>>)

-----------------------------------------------------------------------------
(* The normalisation of tabs                                               *)

TabChars == {"\t", " ", "p", "."}

\* the sources of up to four characters with a tab somewhere
TabSources ==
    {s \in UNION {[1..n -> TabChars] : n \in 1..4} :
        \E i \in 1..Len(s) : s[i] = "\t"}

\* the pipeline constructed on such a source
InitTabs ==
    /\ raw_source \in TabSources
    /\ source = NormalizeTabs(raw_source)
    /\ pc = "tokenize"
    /\ tk_pos = 0 /\ tk_line = 1 /\ tk_column = 1 /\ tk_tokens = <<>>
    /\ lx_pos = 0 /\ lx_output = <<>> /\ indent_stack = <<0>>
    /\ lx_error = NoError
    /\ document = Document(<<>>) /\ warnings = <<>> /\ html = <<>>
    /\ logs = {} /\ raised = FALSE
    /\ Idle

SpecTabs == InitTabs /\ [][Next]_vars

\* the text with every tab replaced by four spaces
TabsAsFourSpaces(text) == Replace(text, <<"\t">>, <<" ", " ", " ", " ">>)

\* C22: the source the tokenizer scans is the given source with every tab
\* replaced by exactly four spaces, wherever in the line the tab stands.
C22_EveryTabIsFourSpaces ==
    source = TabsAsFourSpaces(raw_source)

\* what holds instead: a tab fills up to the next multiple of four columns,
\* so only a tab at such a column becomes four spaces
TabsFillToTabStop ==
    /\ source = ExpandTabs(raw_source, TabSize)
    /\ \A i \in 1..Len(source) : source[i] # "\t"

-----------------------------------------------------------------------------
(* The generator's emission for an Element node                            *)

\* a known element, a void one, an unknown one, a known one in capitals,
\* and one the parser knows and the generator does not
ElementTags ==
    {<<"d", "i", "v">>, <<"b", "r">>, <<"f", "o", "o">>, <<"D", "I", "V">>,
     <<"d", "e", "l">>}

A_id == Attribute(<<"i", "d", "=", "'", "a", "'">>, 1, 1)
A_flag == Attribute(<<"h", "i", "d", "d", "e", "n">>, 1, 1)
ElementAttributes == UNION {[1..n -> {A_id, A_flag}] : n \in 0..2}

K_text == TextNode(<<"x">>, 1, 1)
K_variable == Variable(<<"v">>, NoValue, 1, 1)
K_void == Element(<<"b", "r">>, TRUE, 1, 1, 0)
K_unknown == Element(<<"f", "o", "o">>, FALSE, 1, 1, 0)
K_nested == AddChild(Element(<<"p">>, FALSE, 1, 1, 0), K_text)
ElementChildren ==
    UNION {[1..n -> {K_text, K_variable, K_void, K_unknown, K_nested}] :
               n \in 0..2}

\* the generator constructed on a Document of one Element
InitElementNode ==
    /\ \E tag \in ElementTags, attributes \in ElementAttributes,
          children \in ElementChildren :
           document = Document(<<[Element(tag, Lower(tag) \in VOID_ELEMENTS,
                                          1, 1, 0)
                                    EXCEPT !.attributes = attributes,
                                           !.children = children]>>)
    /\ pc = "generate"
    /\ raw_source = <<>> /\ source = <<>>
    /\ tk_pos = 0 /\ tk_line = 1 /\ tk_column = 1 /\ tk_tokens = <<>>
    /\ lx_pos = 0 /\ lx_output = <<>> /\ indent_stack = <<0>>
    /\ lx_error = NoError
    /\ warnings = <<>> /\ html = <<>>
    /\ logs = {} /\ raised = FALSE
    /\ Idle

NextElementNode == GenerateHtml

SpecElementNode == InitElementNode /\ [][NextElementNode]_vars

\* each attribute as a space and its raw content
RECURSIVE AttributesText(_)
AttributesText(attributes) ==
    IF attributes = <<>> THEN <<>>
    ELSE <<" ">> \o Head(attributes).content \o AttributesText(Tail(attributes))

\* the emission C24 states for an element, given the emission of its
\* children
StatedEmission(node, inner) ==
    LET tag == node.tag_name
        void == Lower(tag) \in VOID_ELEMENTS
        known == Lower(tag) \in ELEMENTS_WITH_CLOSING_TAG
        childless == node.children = <<>>
        open == <<"<">> \o tag \o AttributesText(node.attributes)
    IN  IF ~known /\ ~void /\ childless /\ node.attributes = <<>>
        THEN tag \o <<"\n">>
        ELSE IF childless /\ (void \/ ~known) THEN open \o <<" ", "/", ">">>
        ELSE IF childless THEN open \o <<">", "<", "/">> \o tag \o <<">">>
        ELSE open \o <<">">> \o inner \o <<"<", "/">> \o tag \o <<">">>

\* C24: for an Element the generator emits the tag name and a newline when
\* the tag is neither known nor void and has no children and no
\* attributes; otherwise <tag, each attribute as a space and its content,
\* then " />" if childless and void or unknown, "></tag>" if childless and
\* known, and ">", the children's emissions in order, "</tag>" otherwise.
C24_ElementEmission ==
    pc = "done" =>
        LET node == document.children[1]
        IN  html = StatedEmission(node, VisitAll(node.children))

\* C24 witness: a void element with two attributes and two children was
\* emitted with a closing tag
C24_VoidWithChildrenEmitted ==
    /\ pc = "done"
    /\ document.children[1].tag_name = <<"b", "r">>
    /\ Len(document.children[1].attributes) = 2
    /\ document.children[1].children = <<K_nested, K_unknown>>
    /\ SubSeq(html, Len(html) - 4, Len(html)) = <<"<", "/", "b", "r", ">">>

-----------------------------------------------------------------------------
(* Elements, their recorded indent and their block children                *)

\* the bodies of the line after an element: nothing but its indentation,
\* a comment, a template comment, a tag
MiddleBodies == {<<>>, B_comment, B_jinja_comment, B_tag}
LastBodies == {B_tag, B_unknown, B_var_default}

\* an element, an indented line, and a third line at any level
BlockSources ==
    {JoinLines(<<B_tag, Spaces(second * IndentUnit) \o middle,
                 Spaces(third * IndentUnit) \o last>>) :
        second \in 1..2, middle \in MiddleBodies,
        third \in 0..2, last \in LastBodies}

\* the pipeline constructed on such a source
InitBlocks ==
    /\ raw_source \in BlockSources
    /\ source = NormalizeTabs(raw_source)
    /\ pc = "tokenize"
    /\ tk_pos = 0 /\ tk_line = 1 /\ tk_column = 1 /\ tk_tokens = <<>>
    /\ lx_pos = 0 /\ lx_output = <<>> /\ indent_stack = <<0>>
    /\ lx_error = NoError
    /\ document = Document(<<>>) /\ warnings = <<>> /\ html = <<>>
    /\ logs = {} /\ raised = FALSE
    /\ Idle

SpecBlocks == InitBlocks /\ [][Next]_vars

\* every node that an element among nodes, or below them, holds from
\* another line than its own stands on a line indented by more than the
\* element's recorded indent; ws are the indentations of the lines
RECURSIVE BlockChildrenDeeper(_, _)
BlockChildrenDeeper(nodes, ws) ==
    \A k \in 1..Len(nodes) :
        nodes[k].type = "Element" =>
            /\ \A c \in Range(nodes[k].attributes \o nodes[k].children) :
                   c.line # nodes[k].line => ws[c.line] > nodes[k].element_indent
            /\ BlockChildrenDeeper(nodes[k].children, ws)

\* C25: every node the parser attached to an element as a block child
\* stands on a source line indented by strictly more than the element's
\* recorded indent, also when a line of only a comment or only indentation
\* stands between them.
C25_BlockChildIndentedDeeper ==
    pc = "done" => BlockChildrenDeeper(document.children, Indents(source))
-----------------------------------------------------------------------------
(* A tag followed by text on its line                                      *)

LineTags == {<<"p">>, <<"d", "i", "v">>}
RestChars == {"a", " ", ",", "."}

\* the remaining texts of up to three characters that neither start nor
\* end with a space
RestTexts ==
    {s \in UNION {[1..n -> RestChars] : n \in 1..3} :
        s[1] # " " /\ s[Len(s)] # " "}

\* the pipeline constructed on one line: a tag, a space, the remaining text
InitTagLine ==
    /\ \E tag \in LineTags, rest \in RestTexts :
           raw_source = tag \o <<" ">> \o rest
    /\ source = NormalizeTabs(raw_source)
    /\ pc = "tokenize"
    /\ tk_pos = 0 /\ tk_line = 1 /\ tk_column = 1 /\ tk_tokens = <<>>
    /\ lx_pos = 0 /\ lx_output = <<>> /\ indent_stack = <<0>>
    /\ lx_error = NoError
    /\ document = Document(<<>>) /\ warnings = <<>> /\ html = <<>>
    /\ logs = {} /\ raised = FALSE
    /\ Idle

SpecTagLine == InitTagLine /\ [][Next]_vars

\* C26: for a line of a recognized tag, a space and any remaining text, the
\* tokenizer emits IDENTIFIER(tag) and then a separate TEXT token that holds
\* the remaining text.
C26_TagThenSeparateText ==
    pc # "tokenize" =>
        \E tag \in LineTags, rest \in RestTexts :
            /\ raw_source = tag \o <<" ">> \o rest
            /\ Len(tk_tokens) >= 2
            /\ tk_tokens[1].type = "IDENTIFIER" /\ tk_tokens[1].value = tag
            /\ tk_tokens[2].type = "TEXT" /\ tk_tokens[2].value = rest

\* what holds instead: the line splits into IDENTIFIER and TEXT exactly when
\* the remaining text is letters, digits and spaces; with punctuation in it
\* the whole line is one TEXT token
TagSplitsOnlyFromPlainText ==
    pc # "tokenize" =>
        IF \A i \in 1..Len(source) : IsAlnum(source[i]) \/ source[i] = " "
        THEN tk_tokens[1].type = "IDENTIFIER" /\ tk_tokens[2].type = "TEXT"
        ELSE tk_tokens[1].type = "TEXT" /\ tk_tokens[1].value = source
-----------------------------------------------------------------------------
(* The indent recorded for an element                                      *)

RECURSIVE RecordedIndentIsOwn(_, _)
RecordedIndentIsOwn(nodes, ws) ==
    \A k \in 1..Len(nodes) :
        nodes[k].type = "Element" =>
            /\ nodes[k].element_indent = ws[nodes[k].line]
            /\ RecordedIndentIsOwn(nodes[k].children, ws)

\* C27: the indent the parser records for an element is the indentation
\* width of the line on which the element's tag stands, also for an element
\* at column 0 that follows an indented block.
C27_RecordedIndentIsLineIndent ==
    pc = "done" => RecordedIndentIsOwn(document.children, Indents(source))
-----------------------------------------------------------------------------
(* The end of the lexer's output                                           *)

EOFs(tokens) == {i \in 1..Len(tokens) : tokens[i].type = "EOF"}

\* C28: when Lexer.process has returned normally, its output holds exactly one
\* EOF token, and every token after it is a DEDENT.
C28_OutputEndsWithOneEOF ==
    LexReturned =>
        /\ Cardinality(EOFs(lx_output)) = 1
        /\ \A i \in EOFs(lx_output) : \A j \in (i + 1)..Len(lx_output) :
               lx_output[j].type = "DEDENT"

\* what holds instead: at most one EOF, followed by DEDENT tokens only; an
\* unclosed comment takes the EOF with it
AtMostOneEOFThenDedents ==
    LexReturned =>
        /\ Cardinality(EOFs(lx_output)) <= 1
        /\ \A i \in EOFs(lx_output) : \A j \in (i + 1)..Len(lx_output) :
               lx_output[j].type = "DEDENT"
-----------------------------------------------------------------------------
(* The shape of the indent stack                                           *)

Top(stack) == stack[Len(stack)]

\* non-empty, 0 at the bottom, strictly increasing from bottom to top
StackShape(stack) ==
    /\ Len(stack) >= 1
    /\ stack[1] = 0
    /\ \A i \in 1..(Len(stack) - 1) : stack[i] < stack[i + 1]

\* C29: in every state reached during Lexer.process the indent stack is
\* non-empty, has 0 at the bottom and is strictly increasing from bottom to
\* top; and immediately after an INDENT token of width W has been handled the
\* top of the stack is at most W.
C29_IndentStackShape ==
    /\ [](StackShape(indent_stack))
    /\ [][AtIndent =>
              Top(indent_stack') <= Len(tk_tokens[lx_pos + 1].value)]_vars

\* an INDENT has just been handled that closed a deeper level without being
\* pushed: the top of the stack is below its width
C29_TopBelowHandledIndent ==
    /\ pc = "lex"
    /\ lx_pos >= 1
    /\ tk_tokens[lx_pos].type = "INDENT"
    /\ Top(indent_stack) < Len(tk_tokens[lx_pos].value)
    /\ StackShape(indent_stack)
-----------------------------------------------------------------------------
(* What resolve leaves of the import placeholders                          *)

CeilingLogged == LogEntry("too_deep", <<>>) \in logs

\* C30: when resolve has returned without the iteration-ceiling diagnostic,
\* the returned text holds no substring that matches the import placeholder
\* pattern.
C30_NoPlaceholderLeft ==
    (pc = "resolved" /\ ~CeilingLogged) => MatchStarts(result, 0) = {}

\* what holds instead: the returned text is one that a substitution pass
\* leaves as it is
ReturnedTextIsFixedPoint ==
    (pc = "resolved" /\ ~CeilingLogged) =>
        SubFrom(result, 0, import_stack, MaxNesting).text = result
====
